---- MODULE Spec2Model ----
(***************************************************************************)
(* Verification model of the ProtoContext WordPress plugin's context.txt   *)
(* compiler (class ProtoContext_Generator).                                *)
(*                                                                         *)
(* Strings are run-length encoded: a text is a sequence of runs            *)
(* [c |-> token, n |-> count].  A token is one character of the content    *)
(* alphabet ("a" lower-case letter, "A" upper-case letter, "0" digit,      *)
(* " ", ".", "\n", "-", "BULLET" for U+2022) or an atomic literal that the *)
(* generator writes itself ("## section: ", "@lang: ", ...).  Adjacent     *)
(* runs never carry the same token, so equal strings have equal encodings. *)
(* The encoding keeps the program's constants (1000 characters, 500*1024   *)
(* bytes) at their real values.                                            *)
(***************************************************************************)
EXTENDS Integers, Sequences, FiniteSets, TLC

VARIABLES settings, wc, db, op, arg, ret, transients, requests, admin, updater

vars == <<settings, wc, db, op, arg, ret, transients, requests, admin, updater>>

\* The serving layer: the cached documents, the requests being handled and
\* the position of the settings form; and the updater service.
server == <<transients, requests, admin, updater>>

\* No request is being served and nothing is cached.
NoServer ==
    /\ transients = <<>>
    /\ requests = <<>>
    /\ admin = <<>>
    /\ updater = <<>>

\* ------------------------------------------------------------------------
\*  Program constants
\* ------------------------------------------------------------------------

max_section_chars == 1000

max_total_bytes == 500 * 1024

\* ------------------------------------------------------------------------
\*  PHP string primitives over run-length encoded text
\* ------------------------------------------------------------------------

\* A nullable value is a sequence of length 0 (null) or 1.
None == <<>>

Some(x) == <<x>>

\* PHP's $opt ?? $default
Coalesce(opt, default) == IF opt = None THEN default ELSE opt[1]

Run(c, n) == [c |-> c, n |-> n]

\* The string made of n copies of token c (str_repeat); "" is the empty token.
Rep(c, n) == IF n <= 0 \/ c = "" THEN <<>> ELSE <<Run(c, n)>>

\* A literal written by the generator.
Lit(s) == <<Run(s, 1)>>

\* PHP's "." operator.
Cat(s, t) ==
    IF s = <<>> THEN t
    ELSE IF t = <<>> THEN s
    ELSE IF s[Len(s)].c = t[1].c
         THEN SubSeq(s, 1, Len(s) - 1)
                \o <<Run(t[1].c, s[Len(s)].n + t[1].n)>>
                \o Tail(t)
         ELSE s \o t

\* The parts joined in order; "." is associative, so the halves are joined.
RECURSIVE CatAll(_)
CatAll(ts) ==
    IF ts = <<>> THEN <<>>
    ELSE IF Len(ts) = 1 THEN ts[1]
    ELSE Cat(CatAll(SubSeq(ts, 1, Len(ts) \div 2)),
             CatAll(SubSeq(ts, Len(ts) \div 2 + 1, Len(ts))))

\* Tokens that are one multi-byte character (U+2022, U+2014, U+200B: 3 bytes
\* each).
MultiByte == {"BULLET", "EMDASH", "ZWSP"}

\* "FRAG" is one byte left over when a cut falls inside a token.
TokChars(c) == IF c \in MultiByte \cup {"FRAG"} THEN 1 ELSE Len(c)

TokBytes(c) == IF c \in MultiByte THEN 3 ELSE IF c = "FRAG" THEN 1 ELSE Len(c)

\* The lengths add up over the two halves of the text.
RECURSIVE mb_strlen(_)
mb_strlen(t) ==
    IF t = <<>> THEN 0
    ELSE IF Len(t) = 1 THEN t[1].n * TokChars(t[1].c)
    ELSE mb_strlen(SubSeq(t, 1, Len(t) \div 2))
            + mb_strlen(SubSeq(t, Len(t) \div 2 + 1, Len(t)))

RECURSIVE strlen(_)
strlen(t) ==
    IF t = <<>> THEN 0
    ELSE IF Len(t) = 1 THEN t[1].n * TokBytes(t[1].c)
    ELSE strlen(SubSeq(t, 1, Len(t) \div 2))
            + strlen(SubSeq(t, Len(t) \div 2 + 1, Len(t)))

\* The first k units of t, in characters (bytes = FALSE) or bytes.
\* Units(t, bytes) is the length of t in that unit.  The runs that fit in k
\* units are kept whole; the next run is cut, and a cut inside a token leaves
\* single bytes of it.
Units(t, bytes) == IF bytes THEN strlen(t) ELSE mb_strlen(t)

CutRun(r, k, bytes) ==
    LET w == IF bytes THEN TokBytes(r.c) ELSE TokChars(r.c)
    IN  Cat(Rep(r.c, k \div w), Rep("FRAG", k - (k \div w) * w))

WholeRuns(t, k, bytes) ==
    Cardinality({ i \in 1 .. Len(t) : Units(SubSeq(t, 1, i), bytes) <= k })

TakePrefix(t, m, k, bytes) ==
    IF m = Len(t) THEN t
    ELSE Cat(SubSeq(t, 1, m), CutRun(t[m + 1], k - Units(SubSeq(t, 1, m), bytes), bytes))

TakeUnits(t, k, bytes) ==
    IF t = <<>> \/ k <= 0 THEN <<>> ELSE TakePrefix(t, WholeRuns(t, k, bytes), k, bytes)

\* mb_substr($t, 0, $k)
mb_substr(t, k) == TakeUnits(t, k, FALSE)

\* substr($t, 0, $k)
substr(t, k) == TakeUnits(t, k, TRUE)

\* mb_strrpos($t, $ch) for a one-character needle; -1 stands for false.
RECURSIVE mb_strrpos_from(_, _, _)
mb_strrpos_from(t, ch, i) ==
    IF i = 0 THEN -1
    ELSE IF t[i].c = ch THEN mb_strlen(SubSeq(t, 1, i)) - 1
    ELSE mb_strrpos_from(t, ch, i - 1)

mb_strrpos(t, ch) == mb_strrpos_from(t, ch, Len(t))

\* max($a, $b), with false (-1) below every index.
max(a, b) == IF a >= b THEN a ELSE b

\* explode("\n", $t): the lines of t.
RECURSIVE explode_acc(_, _)
explode_acc(t, cur) ==
    IF t = <<>> THEN <<cur>>
    ELSE IF t[1].c = "\n"
         THEN <<cur>> \o [i \in 1 .. (t[1].n - 1) |-> <<>>]
                \o explode_acc(Tail(t), <<>>)
         ELSE explode_acc(Tail(t), cur \o <<t[1]>>)

explode(t) == explode_acc(t, <<>>)

\* implode($glue, $parts)
RECURSIVE implode(_, _)
implode(glue, parts) ==
    IF parts = <<>> THEN <<>>
    ELSE IF Len(parts) = 1 THEN parts[1]
    ELSE Cat(implode(glue, SubSeq(parts, 1, Len(parts) \div 2)),
             Cat(glue, implode(glue, SubSeq(parts, Len(parts) \div 2 + 1, Len(parts)))))

\* trim($t): strips white space from both ends.
WhiteSpace == {" ", "\n"}

RECURSIVE ltrim(_)
ltrim(t) == IF t # <<>> /\ t[1].c \in WhiteSpace THEN ltrim(Tail(t)) ELSE t

RECURSIVE rtrim(_)
rtrim(t) ==
    IF t # <<>> /\ t[Len(t)].c \in WhiteSpace
    THEN rtrim(SubSeq(t, 1, Len(t) - 1))
    ELSE t

trim(t) == rtrim(ltrim(t))

\* mb_strtoupper($t)
mb_strtoupper(t) ==
    CatAll([i \in 1 .. Len(t) |->
              <<Run(IF t[i].c = "a" THEN "A" ELSE t[i].c, t[i].n)>>])

\* str_starts_with($t, $ch) for a one-character needle.
str_starts_with(t, ch) == t # <<>> /\ t[1].c = ch

\* " \u2014 ": a space, an em dash, a space.
EmDash == <<Run(" ", 1), Run("EMDASH", 1), Run(" ", 1)>>

\* Applies f to every run of t and joins the results.
MapRuns(f(_), t) == CatAll([i \in 1 .. Len(t) |-> f(t[i])])

\* f applied to the value of x, which is computed first: the statements of a
\* PHP function run one after the other, each on the result of the last.
Then(x, f(_)) == CHOOSE y \in { f(v) : v \in {x} } : TRUE

\* PHP's conversion of a string to bool: "" and "0" are false.
Truthy(t) == t # <<>> /\ t # Rep("0", 1)

\* ------------------------------------------------------------------------
\*  ProtoContext_Generator::clean_text
\*
\*  Markup of the raw content is carried by the tokens "[sc]" (a builder or
\*  shortcode tag), "<!--wp-->" (a block comment), "<br>", "<p>", "</p>",
\*  "<li>", "<b>" (an inline tag), "<style>x</style>" and
\*  "<script>x</script>" (a block with its content).  "&lt;b&gt;" is the
\*  inline tag written with entities, "&amp;lt;b&amp;gt;" that text with its
\*  ampersands encoded once more, "ZWSP" a zero-width space (U+200B).
\* ------------------------------------------------------------------------

\* $builder_patterns and strip_shortcodes: shortcode tags are removed.
strip_builder_run(r) == IF r.c = "[sc]" THEN <<>> ELSE <<r>>

\* '/<!--\s*\/?wp:[^>]*?-->/' is removed.
strip_wp_comment_run(r) == IF r.c = "<!--wp-->" THEN <<>> ELSE <<r>>

\* '/<style[^>]*>.*?<\/style>/si' and '/<script[^>]*>.*?<\/script>/si' are
\* removed.
strip_block_run(r) ==
    IF r.c \in {"<style>x</style>", "<script>x</script>"} THEN <<>> ELSE <<r>>

\* <br> and the closing block tags become newlines, <li> becomes "- ".
block_tag_run(r) ==
    IF r.c \in {"<br>", "</p>"} THEN Rep("\n", r.n)
    ELSE IF r.c = "<li>" THEN CatAll([i \in 1 .. r.n |-> <<Run("-", 1), Run(" ", 1)>>])
    ELSE <<r>>

\* wp_strip_all_tags: the remaining tags are removed.
strip_tag_run(r) ==
    IF r.c \in {"<p>", "<li>", "<br>", "</p>", "<b>", "<style>x</style>", "<script>x</script>"}
    THEN <<>> ELSE <<r>>

\* html_entity_decode($text, ENT_QUOTES, 'UTF-8'): one level of entities is
\* decoded.
entity_decode_run(r) ==
    IF r.c = "&lt;b&gt;" THEN <<Run("<b>", r.n)>>
    ELSE IF r.c = "&amp;lt;b&amp;gt;" THEN <<Run("&lt;b&gt;", r.n)>>
    ELSE <<r>>

\* '/[\x{200B}-\x{200D}\x{FEFF}\x{00A0}]/u' -> ' '
blank_run(r) == IF r.c = "ZWSP" THEN <<Run(" ", r.n)>> ELSE <<r>>

\* '/[ \t]+/' -> ' '
collapse_space_run(r) == IF r.c = " " THEN <<Run(" ", 1)>> ELSE <<r>>

\* '/\n[ \t]+/' -> "\n": the blanks that follow a newline are removed.
strip_line_indent(t) ==
    CatAll([i \in 1 .. Len(t) |->
                IF i > 1 /\ t[i].c = " " /\ t[i - 1].c = "\n" THEN <<>> ELSE <<t[i]>>])

\* '/\n{3,}/' -> "\n\n"
collapse_newline_run(r) == IF r.c = "\n" /\ r.n >= 3 THEN <<Run("\n", 2)>> ELSE <<r>>

clean_text(text) ==
    Then(Then(Then(Then(Then(Then(Then(Then(
        MapRuns(strip_builder_run, text),
        LAMBDA t : MapRuns(strip_wp_comment_run, t)),
        LAMBDA t : MapRuns(strip_block_run, t)),
        LAMBDA t : MapRuns(block_tag_run, t)),
        LAMBDA t : trim(MapRuns(strip_tag_run, t))),
        LAMBDA t : MapRuns(blank_run, MapRuns(entity_decode_run, t))),
        LAMBDA t : MapRuns(collapse_space_run, t)),
        strip_line_indent),
        LAMBDA t : trim(MapRuns(collapse_newline_run, t)))

\* ------------------------------------------------------------------------
\*  ProtoContext_Generator::truncate
\* ------------------------------------------------------------------------

\* truncate with the half-way test written >= instead of >.
truncate_break_at_half(text) ==
    IF mb_strlen(text) <= max_section_chars THEN text
    ELSE LET cut == mb_substr(text, max_section_chars)
             break_at == max(mb_strrpos(cut, "."), mb_strrpos(cut, "\n"))
         IN  IF break_at * 2 >= max_section_chars
             THEN mb_substr(text, break_at + 1)
             ELSE Cat(cut, Rep(".", 3))

truncate(text) ==
    IF mb_strlen(text) <= max_section_chars THEN text
    ELSE LET cut == mb_substr(text, max_section_chars)
             last_period == mb_strrpos(cut, ".")
             last_newline == mb_strrpos(cut, "\n")
             break_at == max(last_period, last_newline)
         IN  IF break_at * 2 > max_section_chars
             THEN mb_substr(text, break_at + 1)
             ELSE Cat(cut, Rep(".", 3))

\* ------------------------------------------------------------------------
\*  ProtoContext_Generator::split_into_sections
\* ------------------------------------------------------------------------

\* preg_match('/[.,:;!?]$/', $trimmed)
EndPunctuation == {".", ",", ":", ";", "!", "?"}

ends_with_punctuation(trimmed) ==
    trimmed # <<>> /\ trimmed[Len(trimmed)].c \in EndPunctuation

\* preg_match of the Title Case pattern
\*   ^[A-Z][a-z]+(\s[A-Z]?[a-z]*)*$
\* an upper-case letter, one or more lower-case letters, then groups of one
\* white-space character, an optional upper-case letter and lower-case letters.
title_case_match(trimmed) ==
    /\ Len(trimmed) >= 2
    /\ trimmed[1] = Run("A", 1)
    /\ trimmed[2].c = "a"
    /\ \A i \in 3 .. Len(trimmed) :
          /\ trimmed[i].c \in {" ", "A", "a"}
          /\ trimmed[i].c = "A" =>
                trimmed[i].n = 1 /\ trimmed[i - 1].c = " "

\* $is_heading: && binds tighter than ||, so the Title Case match alone
\* makes a heading.
is_heading(trimmed) ==
    \/ /\ mb_strlen(trimmed) > 3
       /\ mb_strlen(trimmed) < 80
       /\ ~ends_with_punctuation(trimmed)
       /\ ~str_starts_with(trimmed, "-")
       /\ ~str_starts_with(trimmed, "BULLET")
       /\ mb_strtoupper(trimmed) = trimmed
    \/ title_case_match(trimmed)

\* "## section: {$title}\n\n{$body}"
section_text(title, body) ==
    CatAll(<<Lit("## section: "), title, Rep("\n", 2), body>>)

\* The flush without the floor: every flushed body is appended.
append_section_without_floor(sections, title, body_text) ==
    Append(sections, section_text(title, body_text))

\* $sections[] = ... when the flushed body is longer than 30 characters.
append_section(sections, title, body_text) ==
    IF mb_strlen(body_text) > 30
    THEN Append(sections, section_text(title, body_text))
    ELSE sections

\* The flush of $current_body under $current_title.
flush_body(sections, current_title, current_body) ==
    append_section(sections, current_title,
                   truncate(trim(implode(Rep("\n", 1), current_body))))

\* The foreach over $lines from line i on, followed by the flush of the last
\* body.
RECURSIVE split_loop(_, _, _, _, _)
split_loop(lines, i, sections, current_title, current_body) ==
    IF i > Len(lines)
    THEN flush_body(sections, current_title, current_body)
    ELSE IF is_heading(trim(lines[i])) /\ current_body # <<>>
         THEN split_loop(lines, i + 1,
                         flush_body(sections, current_title, current_body),
                         trim(lines[i]), <<>>)
         ELSE split_loop(lines, i + 1, sections, current_title,
                         Append(current_body, lines[i]))

\* The fallback left out: an empty list stays empty.
sections_without_fallback(sections, content, page_title) == sections

\* if (empty($sections)): the whole content becomes one section.
sections_or_fallback(sections, content, page_title) ==
    IF sections = <<>>
    THEN <<section_text(page_title, truncate(content))>>
    ELSE sections

split_into_sections(content, page_title) ==
    sections_or_fallback(split_loop(explode(content), 1, <<>>, page_title, <<>>),
                         content, page_title)

\* ------------------------------------------------------------------------
\*  ProtoContext_Generator::build_product_sections and its helpers
\* ------------------------------------------------------------------------

\* "{$key}{$value}" for one KEY: value line.
kv(key, value) == Cat(Lit(key), value)

\* $product->get_sku() ?: "wc-{$product_id}"
product_identifier(sku, product_id) ==
    IF Truthy(sku) THEN sku ELSE Cat(Lit("wc-"), Lit(ToString(product_id)))

\* implode(', ', $names)
comma_list(names) == implode(Lit(", "), names)

\* The $lines with PRICE read from the regular price instead of the price.
product_details_lines_regular_price(product, product_id, currency) ==
    <<kv("PRODUCT_ID: ", product_identifier(product.sku, product_id)),
      kv("PRICE: ", product.regular_price),
      kv("CURRENCY: ", currency)>>
    \o (IF product.on_sale
        THEN <<kv("REGULAR_PRICE: ", product.regular_price),
               kv("SALE_PRICE: ", product.sale_price)>>
        ELSE <<>>)
    \o <<kv("STOCK_STATUS: ",
             IF product.in_stock THEN Lit("in_stock") ELSE Lit("out_of_stock"))>>
    \o (IF product.stock_quantity # None
        THEN <<kv("STOCK_QUANTITY: ", Lit(ToString(product.stock_quantity[1])))>>
        ELSE <<>>)
    \o (IF product.cats # <<>>
        THEN <<kv("CATEGORY: ", comma_list(product.cats))>> ELSE <<>>)
    \o (IF product.tags # <<>>
        THEN <<kv("TAGS: ", comma_list(product.tags))>> ELSE <<>>)
    \o (IF Truthy(product.weight)
        THEN <<kv("WEIGHT: ", CatAll(<<product.weight, Rep(" ", 1), Lit("kg")>>))>>
        ELSE <<>>)
    \o (IF Truthy(product.dimensions) /\ product.dimensions # Lit("N/A")
        THEN <<kv("DIMENSIONS: ", product.dimensions)>> ELSE <<>>)
    \o <<kv("PURCHASE_URL: ", product.permalink),
          kv("ACTION: ", Lit("product_purchase"))>>
    \o (IF product.image_id # 0 /\ Truthy(product.image_url)
        THEN <<kv("IMAGE_URL: ", product.image_url)>> ELSE <<>>)

\* The $lines with STOCK_QUANTITY written only for a quantity that is not 0.
product_details_lines_truthy_stock(product, product_id, currency) ==
    <<kv("PRODUCT_ID: ", product_identifier(product.sku, product_id)),
      kv("PRICE: ", product.price),
      kv("CURRENCY: ", currency)>>
    \o (IF product.on_sale
        THEN <<kv("REGULAR_PRICE: ", product.regular_price),
               kv("SALE_PRICE: ", product.sale_price)>>
        ELSE <<>>)
    \o <<kv("STOCK_STATUS: ",
             IF product.in_stock THEN Lit("in_stock") ELSE Lit("out_of_stock"))>>
    \o (IF product.stock_quantity # None /\ product.stock_quantity # Some(0)
        THEN <<kv("STOCK_QUANTITY: ", Lit(ToString(product.stock_quantity[1])))>>
        ELSE <<>>)
    \o (IF product.cats # <<>>
        THEN <<kv("CATEGORY: ", comma_list(product.cats))>> ELSE <<>>)
    \o (IF product.tags # <<>>
        THEN <<kv("TAGS: ", comma_list(product.tags))>> ELSE <<>>)
    \o (IF Truthy(product.weight)
        THEN <<kv("WEIGHT: ", CatAll(<<product.weight, Rep(" ", 1), Lit("kg")>>))>>
        ELSE <<>>)
    \o (IF Truthy(product.dimensions) /\ product.dimensions # Lit("N/A")
        THEN <<kv("DIMENSIONS: ", product.dimensions)>> ELSE <<>>)
    \o <<kv("PURCHASE_URL: ", product.permalink),
          kv("ACTION: ", Lit("product_purchase"))>>
    \o (IF product.image_id # 0 /\ Truthy(product.image_url)
        THEN <<kv("IMAGE_URL: ", product.image_url)>> ELSE <<>>)

\* The $lines of the "Product Details" block.
product_details_lines(product, product_id, currency) ==
    <<kv("PRODUCT_ID: ", product_identifier(product.sku, product_id)),
      kv("PRICE: ", product.price),
      kv("CURRENCY: ", currency)>>
    \o (IF product.on_sale
        THEN <<kv("REGULAR_PRICE: ", product.regular_price),
               kv("SALE_PRICE: ", product.sale_price)>>
        ELSE <<>>)
    \o <<kv("STOCK_STATUS: ",
             IF product.in_stock THEN Lit("in_stock") ELSE Lit("out_of_stock"))>>
    \o (IF product.stock_quantity # None
        THEN <<kv("STOCK_QUANTITY: ", Lit(ToString(product.stock_quantity[1])))>>
        ELSE <<>>)
    \o (IF product.cats # <<>>
        THEN <<kv("CATEGORY: ", comma_list(product.cats))>> ELSE <<>>)
    \o (IF product.tags # <<>>
        THEN <<kv("TAGS: ", comma_list(product.tags))>> ELSE <<>>)
    \o (IF Truthy(product.weight)
        THEN <<kv("WEIGHT: ", CatAll(<<product.weight, Rep(" ", 1), Lit("kg")>>))>>
        ELSE <<>>)
    \o (IF Truthy(product.dimensions) /\ product.dimensions # Lit("N/A")
        THEN <<kv("DIMENSIONS: ", product.dimensions)>> ELSE <<>>)
    \o <<kv("PURCHASE_URL: ", product.permalink),
          kv("ACTION: ", Lit("product_purchase"))>>
    \o (IF product.image_id # 0 /\ Truthy(product.image_url)
        THEN <<kv("IMAGE_URL: ", product.image_url)>> ELSE <<>>)

\* The $attr_lines of the "Specifications" block.
attribute_lines(attributes) ==
    [i \in 1 .. Len(attributes) |->
        CatAll(<<attributes[i].name, Lit(": "), comma_list(attributes[i].options)>>)]

\* One line of build_variation_sections; a variation that cannot be loaded
\* is skipped.
RECURSIVE variation_lines(_, _)
variation_lines(variations, currency) ==
    IF variations = <<>> THEN <<>>
    ELSE LET v == variations[1]
             line == CatAll(<<Rep("-", 1), Rep(" ", 1), v.attr_str,
                              EmDash, currency, Rep(" ", 1), v.price,
                              IF Truthy(v.sku)
                              THEN CatAll(<<Lit(" (SKU: "), v.sku, Lit(")")>>)
                              ELSE <<>>,
                              IF v.in_stock THEN Lit(" [In stock]")
                              ELSE Lit(" [Out of stock]")>>)
         IN  (IF v.exists THEN <<line>> ELSE <<>>)
                \o variation_lines(Tail(variations), currency)

build_variation_sections(product, currency) ==
    LET lines == variation_lines(product.variations, currency)
    IN  IF product.variations = <<>> \/ lines = <<>> THEN <<>>
        ELSE <<Cat(section_text(Lit("Available Variations"), <<>>),
                   implode(Rep("\n", 1), lines))>>

\* The two lines listed for each related product that is published; skip
\* holds the ids left out (the upsells, when listing cross-sells).
RECURSIVE related_lines(_, _, _)
related_lines(related, skip, domain) ==
    IF related = <<>> THEN <<>>
    ELSE LET r == related[1]
         IN  (IF r.exists /\ r.status = "publish" /\ r.id \notin skip
              THEN <<CatAll(<<Rep("-", 1), Rep(" ", 1), r.name, EmDash, r.price>>),
                     CatAll(<<Rep(" ", 2), Lit("https://"), domain,
                              Lit("/context/products/"), Lit(r.slug), Lit(".txt")>>)>>
              ELSE <<>>)
                \o related_lines(Tail(related), skip, domain)

\* array_slice($ids, 0, 5)
first_five(ids) == SubSeq(ids, 1, IF Len(ids) < 5 THEN Len(ids) ELSE 5)

build_related_products_section(product, domain) ==
    LET lines == related_lines(first_five(product.upsells), {}, domain)
                   \o related_lines(first_five(product.cross_sells),
                                    { product.upsells[i].id : i \in DOMAIN product.upsells },
                                    domain)
    IN  IF lines = <<>> THEN None
        ELSE Some(Cat(section_text(Lit("Related Products"), <<>>),
                      implode(Rep("\n", 1), lines)))

\* wc_product is None when wc_get_product($product_id) finds nothing.
build_product_sections(wc_product, product_id, currency, domain) ==
    IF wc_product = None THEN <<>>
    ELSE LET product == wc_product[1]
             details == Cat(section_text(Lit("Product Details"), <<>>),
                            implode(Rep("\n", 1),
                                    product_details_lines(product, product_id, currency)))
             specs == IF product.attributes # <<>>
                      THEN <<Cat(section_text(Lit("Specifications"), <<>>),
                                 implode(Rep("\n", 1), attribute_lines(product.attributes)))>>
                      ELSE <<>>
             variations == IF product.type = "variable"
                           THEN build_variation_sections(product, currency)
                           ELSE <<>>
             related == build_related_products_section(product, domain)
         IN  <<details>> \o specs \o variations \o related

\* ------------------------------------------------------------------------
\*  WordPress state read by the generator
\*
\*  db.posts is the posts table in query order, db.cats the product_cat
\*  terms, db.sections the protocontext_sections option, db.currency
\*  get_woocommerce_currency(), db.shop_pages the ids wc_get_page_id returns.
\* ------------------------------------------------------------------------

\* wp_parse_url(home_url(), PHP_URL_HOST)
home_domain == Lit("example.com")

\* current_time('Y-m-d')
current_date == Lit("2026-02-23")

\* get_bloginfo('name'), get_bloginfo('description')
bloginfo_name == CatAll(<<Rep("A", 1), Rep("a", 3)>>)

bloginfo_description == CatAll(<<Rep("A", 1), Rep("a", 20), Rep(".", 1)>>)

\* substr(get_locale(), 0, 2)
locale_lang == Lit("en")

\* The description of a header, capped to 160 characters.
cap_description_keep_160(desc) ==
    IF mb_strlen(desc) > 160 THEN Cat(mb_substr(desc, 160), Rep(".", 3)) ELSE desc

cap_description(desc) ==
    IF mb_strlen(desc) > 160 THEN Cat(mb_substr(desc, 157), Rep(".", 3)) ELSE desc

\* ------------------------------------------------------------------------
\*  ProtoContext_Generator: helpers
\* ------------------------------------------------------------------------

is_woocommerce_active(active) == active

detect_industry(st, active) ==
    LET industry == Coalesce(st.industry, <<>>)
    IN  IF Truthy(industry) THEN industry
        ELSE IF is_woocommerce_active(active) THEN Lit("ecommerce")
        ELSE <<>>

build_header(st) ==
    LET name == Coalesce(st.site_name, bloginfo_name)
        desc == cap_description(Coalesce(st.description, bloginfo_description))
    IN  CatAll(<<Lit("# "), name, Rep("\n", 1), Lit("> "), desc>>)

build_metadata(st, active, d) ==
    LET lang == Coalesce(st.lang, locale_lang)
        topics == Coalesce(st.topics, <<>>)
        industry == detect_industry(st, active)
    IN  CatAll(<<Lit("@lang: "), lang, Rep("\n", 1),
                 Lit("@version: 1.0"), Rep("\n", 1),
                 Lit("@updated: "), current_date, Rep("\n", 1),
                 Lit("@canonical: "), Lit("https://"), home_domain, Lit("/context.txt"),
                 IF Truthy(industry)
                 THEN CatAll(<<Rep("\n", 1), Lit("@industry: "), industry,
                               Rep("\n", 1), Lit("@content_type: "), industry>>)
                 ELSE CatAll(<<Rep("\n", 1), Lit("@content_type: "), Lit("website")>>),
                 IF is_woocommerce_active(active)
                 THEN CatAll(<<Rep("\n", 1), Lit("@currency: "), d.currency>>)
                 ELSE <<>>,
                 IF Truthy(topics)
                 THEN CatAll(<<Rep("\n", 1), Lit("@topics: "), topics>>)
                 ELSE <<>>>>)

\* get_post($id): the post with that id, if any.
get_post(d, id) ==
    LET found == { i \in DOMAIN d.posts : d.posts[i].ID = id }
    IN  IF found = {} THEN None ELSE Some(d.posts[CHOOSE i \in found : TRUE])

\* get_context_path without the parent lookup: a page is always listed under
\* its own slug.
get_context_path_own_slug(d, post) ==
    LET slug == Lit(post.post_name)
    IN  CASE post.post_type = "page" -> slug
          [] post.post_type = "post" -> Cat(Lit("blog/"), slug)
          [] post.post_type = "product" -> Cat(Lit("products/"), slug)
          [] OTHER -> CatAll(<<Lit(post.post_type), Lit("/"), slug>>)

\* get_context_path without the 'post' case: posts fall to the default and are
\* listed under their post type.
get_context_path_post_by_type(d, post) ==
    LET slug == Lit(post.post_name)
    IN  CASE post.post_type = "page" ->
               IF post.post_parent # 0 /\ get_post(d, post.post_parent) # None
               THEN CatAll(<<Lit(get_post(d, post.post_parent)[1].post_name),
                             Lit("/"), slug>>)
               ELSE slug
          [] post.post_type = "product" -> Cat(Lit("products/"), slug)
          [] OTHER -> CatAll(<<Lit(post.post_type), Lit("/"), slug>>)

get_context_path(d, post) ==
    LET slug == Lit(post.post_name)
    IN  CASE post.post_type = "page" ->
               IF post.post_parent # 0 /\ get_post(d, post.post_parent) # None
               THEN CatAll(<<Lit(get_post(d, post.post_parent)[1].post_name),
                             Lit("/"), slug>>)
               ELSE slug
          [] post.post_type = "post" -> Cat(Lit("blog/"), slug)
          [] post.post_type = "product" -> Cat(Lit("products/"), slug)
          [] OTHER -> CatAll(<<Lit(post.post_type), Lit("/"), slug>>)

\* apply_filters('the_content', $raw): the sampled contents are given as
\* WordPress hands them on, with their markup.
the_content(raw) == raw

\* Elementor's text replaces the raw content when it is the longer one.
pick_elementor(raw, elementor_text) ==
    IF elementor_text # None
       /\ mb_strlen(elementor_text[1]) > mb_strlen(clean_text(raw))
    THEN elementor_text[1] ELSE raw

\* if ($acf_text) $raw .= "\n" . $acf_text;
append_acf(raw, acf_text) ==
    IF Truthy(acf_text) THEN CatAll(<<raw, Rep("\n", 1), acf_text>>) ELSE raw

get_rendered_content(post) ==
    clean_text(the_content(append_acf(pick_elementor(post.post_content,
                                                     post.elementor_text),
                                      post.acf_text)))

\* strtok($content, "\n"): the first non-empty line.
first_line(content) ==
    LET lines == explode(content)
        filled == { i \in DOMAIN lines : lines[i] # <<>> }
    IN  IF filled = {} THEN <<>>
        ELSE lines[CHOOSE i \in filled : \A j \in filled : i <= j]

\* The first line when longer than 10 characters, else the first 160
\* characters of the content.
line_or_prefix(line, content) ==
    IF mb_strlen(line) > 10 THEN line ELSE mb_substr(content, 160)

short_description_of(content) == line_or_prefix(first_line(content), content)

get_short_description(post) == short_description_of(get_rendered_content(post))

\* array_unique: the first occurrence of each element is kept.
RECURSIVE array_unique(_)
array_unique(xs) ==
    IF xs = <<>> THEN <<>>
    ELSE LET rest == array_unique(SubSeq(xs, 1, Len(xs) - 1))
             last == xs[Len(xs)]
         IN  IF \E i \in DOMAIN rest : rest[i] = last THEN rest
             ELSE Append(rest, last)

get_post_topics(post) ==
    LET cats == [i \in 1 .. Len(post.categories) |-> post.categories[i]]
        kept == { i \in DOMAIN cats : cats[i].slug # "uncategorized" }
        names == [i \in DOMAIN cats |-> cats[i].name]
        RECURSIVE pick(_)
        pick(i) == IF i > Len(cats) THEN <<>>
                   ELSE (IF i \in kept THEN <<names[i]>> ELSE <<>>) \o pick(i + 1)
        topics == pick(1) \o post.tags
                    \o (IF post.post_type = "product" /\ post.product # None
                        THEN post.product[1].cats ELSE <<>>)
        first10 == SubSeq(topics, 1, IF Len(topics) < 10 THEN Len(topics) ELSE 10)
    IN  comma_list(array_unique(first10))

detect_content_type(d, active, post) ==
    IF post.post_type = "product" THEN Lit("product")
    ELSE IF is_woocommerce_active(active) /\ post.ID \in d.shop_pages
         THEN Lit("ecommerce")
         ELSE Lit("website")

\* array_filter($parts): the parts that convert to true.
RECURSIVE array_filter(_)
array_filter(parts) ==
    IF parts = <<>> THEN <<>>
    ELSE (IF Truthy(parts[1]) THEN <<parts[1]>> ELSE <<>>) \o array_filter(Tail(parts))

\* The published child pages of a page, in menu order.
RECURSIVE child_lines(_, _, _)
child_lines(d, post, i) ==
    IF i > Len(d.posts) THEN <<>>
    ELSE LET child == d.posts[i]
         IN  (IF child.post_type = "page" /\ child.post_parent = post.ID
                 /\ child.post_status = "publish"
              THEN <<CatAll(<<Rep("-", 1), Rep(" ", 1), child.post_title,
                              IF Truthy(child.post_excerpt)
                              THEN Cat(EmDash, clean_text(child.post_excerpt))
                              ELSE <<>>>>),
                     CatAll(<<Rep(" ", 2), Lit("https://"), home_domain, Lit("/context/"),
                              Lit(post.post_name), Lit("/"), Lit(child.post_name),
                              Lit(".txt")>>)>>
              ELSE <<>>)
                \o child_lines(d, post, i + 1)

get_child_pages_section(d, post) ==
    IF post.post_type # "page" \/ child_lines(d, post, 1) = <<>> THEN None
    ELSE Some(Cat(section_text(Lit("Sub-pages"), <<>>),
                  implode(Rep("\n", 1), child_lines(d, post, 1))))

\* ------------------------------------------------------------------------
\*  ProtoContext_Generator: single page, category, manual page
\* ------------------------------------------------------------------------

\* $desc of build_page_context before its cap.
page_description(post) ==
    IF Truthy(post.post_excerpt) THEN clean_text(post.post_excerpt)
    ELSE get_short_description(post)

\* "# {$title}\n> {$desc}"
page_header(title, desc) ==
    CatAll(<<Lit("# "), title, Rep("\n", 1), Lit("> "), desc>>)

\* get_the_modified_date('Y-m-d', $post) ?: current_time('Y-m-d')
page_date(post) ==
    IF post.modified # None /\ Truthy(post.modified[1])
    THEN post.modified[1] ELSE current_date

\* One optional metadata line: "\n@key: value" when value is truthy.
optional_meta(key, value) ==
    IF Truthy(value) THEN CatAll(<<Rep("\n", 1), Lit(key), value>>) ELSE <<>>

\* The metadata block with "@updated" written after the optional lines.
page_metadata_updated_last(lang, date, path, content_type, industry, currency, topics) ==
    CatAll(<<Lit("@lang: "), lang, Rep("\n", 1),
             Lit("@version: 1.0"), Rep("\n", 1),
             Lit("@canonical: "), Lit("https://"), home_domain,
             Lit("/context/"), path, Lit(".txt"),
             Rep("\n", 1), Lit("@content_type: "), content_type,
             Rep("\n", 1), Lit("@updated: "), date>>)

\* The metadata block of build_page_context.
page_metadata(lang, date, path, content_type, industry, currency, topics) ==
    CatAll(<<Lit("@lang: "), lang, Rep("\n", 1),
             Lit("@version: 1.0"), Rep("\n", 1),
             Lit("@updated: "), date, Rep("\n", 1),
             Lit("@canonical: "), Lit("https://"), home_domain,
             Lit("/context/"), path, Lit(".txt"),
             Rep("\n", 1), Lit("@content_type: "), content_type,
             optional_meta("@industry: ", industry),
             IF currency # None
             THEN CatAll(<<Rep("\n", 1), Lit("@currency: "), currency[1]>>)
             ELSE <<>>,
             optional_meta("@topics: ", topics)>>)

\* if ($content) { ... split_into_sections($content, $title) ... }
page_content_sections(content, title) ==
    IF Truthy(content) THEN split_into_sections(content, title) ELSE <<>>

\* The parts with the structured blocks of a product placed before the
\* content sections.
page_context_parts_blocks_first(st, active, d, post) ==
    <<page_header(post.post_title, cap_description(page_description(post))),
      page_metadata(Coalesce(st.lang, locale_lang), page_date(post),
                    get_context_path(d, post),
                    detect_content_type(d, active, post),
                    detect_industry(st, active),
                    IF is_woocommerce_active(active) THEN Some(d.currency) ELSE None,
                    get_post_topics(post))>>
        \o (IF post.post_type = "product" /\ is_woocommerce_active(active)
            THEN build_product_sections(post.product, post.ID, d.currency, home_domain)
            ELSE <<>>)
        \o page_content_sections(get_rendered_content(post), post.post_title)
        \o get_child_pages_section(d, post)

\* The output of build_page_context before the size cap.
page_context_parts(st, active, d, post) ==
    <<page_header(post.post_title, cap_description(page_description(post))),
      page_metadata(Coalesce(st.lang, locale_lang), page_date(post),
                    get_context_path(d, post),
                    detect_content_type(d, active, post),
                    detect_industry(st, active),
                    IF is_woocommerce_active(active) THEN Some(d.currency) ELSE None,
                    get_post_topics(post))>>
        \o page_content_sections(get_rendered_content(post), post.post_title)
        \o (IF post.post_type = "product" /\ is_woocommerce_active(active)
            THEN build_product_sections(post.product, post.ID, d.currency, home_domain)
            ELSE <<>>)
        \o get_child_pages_section(d, post)

\* if (strlen($output) > $this->max_total_bytes) $output = substr(...)
cap_total_bytes(output) ==
    IF strlen(output) > max_total_bytes
    THEN substr(output, max_total_bytes)
    ELSE output

build_page_context(st, active, d, post) ==
    cap_total_bytes(implode(Rep("\n", 2),
                            array_filter(page_context_parts(st, active, d, post))))

\* get_term_by('slug', $slug, 'product_cat')
get_term_by_slug(d, slug) ==
    LET found == { i \in DOMAIN d.cats : d.cats[i].slug = slug }
    IN  IF found = {} THEN None
        ELSE Some(d.cats[CHOOSE i \in found : \A j \in found : i <= j])

\* The slugs of a term and of the terms below it (tax_query includes children).
RECURSIVE term_family(_, _, _)
term_family(d, ids, fuel) ==
    LET more == ids \cup { d.cats[i].term_id : i \in { j \in DOMAIN d.cats :
                                                        d.cats[j].parent \in ids } }
    IN  IF fuel = 0 \/ more = ids THEN ids ELSE term_family(d, more, fuel - 1)

\* get_posts of the published products of a category, at most 50.
RECURSIVE category_products(_, _, _)
category_products(d, slugs, i) ==
    IF i > Len(d.posts) THEN <<>>
    ELSE (IF d.posts[i].post_type = "product" /\ d.posts[i].post_status = "publish"
             /\ d.posts[i].cat_slugs \cap slugs # {}
          THEN <<d.posts[i]>> ELSE <<>>)
            \o category_products(d, slugs, i + 1)

\* The $line of one product of a category listing; a product that cannot be
\* loaded is skipped.
category_product_entry(d, p) ==
    IF p.product = None THEN <<>>
    ELSE LET wc_product == p.product[1]
             short_desc == IF Truthy(p.post_excerpt)
                           THEN clean_text(p.post_excerpt) ELSE <<>>
         IN  <<CatAll(<<
                 kv("PRODUCT_ID: ", product_identifier(wc_product.sku, p.ID)),
                 Rep("\n", 1), kv("NAME: ", p.post_title),
                 Rep("\n", 1), kv("PRICE: ", wc_product.price),
                 Rep("\n", 1), kv("CURRENCY: ", d.currency),
                 Rep("\n", 1), kv("STOCK_STATUS: ",
                                   IF wc_product.in_stock THEN Lit("in_stock")
                                   ELSE Lit("out_of_stock")),
                 Rep("\n", 1), kv("PURCHASE_URL: ", wc_product.permalink),
                 Rep("\n", 1), Lit("DETAILS_URL: "), Lit("https://"), home_domain,
                 Lit("/context/products/"), Lit(p.post_name), Lit(".txt"),
                 Rep("\n", 1), kv("ACTION: ", Lit("product_purchase")),
                 IF Truthy(short_desc)
                 THEN Cat(Rep("\n", 1),
                          IF mb_strlen(short_desc) > 120
                          THEN Cat(mb_substr(short_desc, 117), Rep(".", 3))
                          ELSE short_desc)
                 ELSE <<>>>>)>>

RECURSIVE category_product_lines(_, _)
category_product_lines(d, products) ==
    IF products = <<>> THEN <<>>
    ELSE category_product_entry(d, products[1])
            \o category_product_lines(d, Tail(products))

\* The lines of the sub-categories that hold products.
RECURSIVE subcategory_lines(_, _, _)
subcategory_lines(d, term, i) ==
    IF i > Len(d.cats) THEN <<>>
    ELSE LET sub == d.cats[i]
         IN  (IF sub.parent = term.term_id /\ sub.count > 0
              THEN <<CatAll(<<Rep("-", 1), Rep(" ", 1), sub.name, Lit(" ("),
                              Lit(ToString(sub.count)), Lit(" products)")>>),
                     CatAll(<<Rep(" ", 2), Lit("https://"), home_domain,
                              Lit("/context/shop/"), Lit(sub.slug), Lit(".txt")>>)>>
              ELSE <<>>)
                \o subcategory_lines(d, term, i + 1)

build_category_context(st, d, category_slug) ==
    LET found == get_term_by_slug(d, category_slug)
    IN  IF found = None THEN None
        ELSE
        LET term == found[1]
            lang == Coalesce(st.lang, locale_lang)
            header == Cat(Cat(Lit("# "), term.name),
                          IF Truthy(term.description)
                          THEN CatAll(<<Rep("\n", 1), Lit("> "),
                                        cap_description(clean_text(term.description))>>)
                          ELSE <<>>)
            meta == CatAll(<<Lit("@lang: "), lang, Rep("\n", 1),
                             Lit("@version: 1.0"), Rep("\n", 1),
                             Lit("@updated: "), current_date,
                             Rep("\n", 1), Lit("@canonical: "), Lit("https://"),
                             home_domain, Lit("/context/shop/"), Lit(category_slug),
                             Lit(".txt"),
                             Rep("\n", 1), Lit("@content_type: "), Lit("ecommerce"),
                             Rep("\n", 1), Lit("@industry: "), Lit("ecommerce"),
                             Rep("\n", 1), Lit("@currency: "), d.currency>>)
            all == category_products(d,
                       { d.cats[i].slug : i \in { j \in DOMAIN d.cats :
                            d.cats[j].term_id \in
                                term_family(d, {term.term_id}, Len(d.cats)) } }, 1)
            products == SubSeq(all, 1, IF Len(all) < 50 THEN Len(all) ELSE 50)
            listing == IF products # <<>>
                       THEN <<Cat(section_text(Lit("Products"), <<>>),
                                  implode(Rep("\n", 2),
                                          category_product_lines(d, products)))>>
                       ELSE <<>>
            sub_lines == subcategory_lines(d, term, 1)
            subcats == IF sub_lines # <<>>
                       THEN <<Cat(section_text(Lit("Sub-categories"), <<>>),
                                  implode(Rep("\n", 1), sub_lines))>>
                       ELSE <<>>
        IN  Some(implode(Rep("\n", 2),
                         array_filter(<<header, meta>> \o listing \o subcats)))

\* The first manual section whose slug matches and whose body is not empty.
generate_manual_page(st, active, d, slug) ==
    LET hits == { i \in DOMAIN d.sections :
                    d.sections[i].slug = slug /\ Truthy(d.sections[i].body) }
    IN  IF hits = {} THEN None
        ELSE LET section == d.sections[CHOOSE i \in hits : \A j \in hits : i <= j]
             IN  Some(implode(Rep("\n", 2),
                              <<build_header(st),
                                build_metadata(st, active, d),
                                section_text(section.title, clean_text(section.body))>>))

\* ------------------------------------------------------------------------
\*  ProtoContext_Generator: index and public API
\* ------------------------------------------------------------------------

exclude_slugs ==
    {"cart", "checkout", "my-account", "account", "login", "register",
     "privacy-policy", "cookie-policy", "terms-and-conditions",
     "sample-page", "hello-world", "feed", "wp-json"}

is_excluded(post) == post.post_name \in exclude_slugs

\* get_post_types(['public' => true]) without 'attachment'; WooCommerce
\* registers 'product'.
public_post_types(active) ==
    <<"post", "page">> \o (IF is_woocommerce_active(active) THEN <<"product">> ELSE <<>>)

\* $pt->labels->name
type_label(pt) ==
    CASE pt = "post" -> Lit("Posts")
      [] pt = "page" -> Lit("Pages")
      [] pt = "product" -> Lit("Products")
      [] OTHER -> Lit(pt)

\* The one-line description of an index entry.
entry_description(post) ==
    IF Truthy(post.post_excerpt) THEN clean_text(post.post_excerpt)
    ELSE LET content == clean_text(post.post_content)
         IN  IF Truthy(content)
             THEN MapRuns(LAMBDA r : IF r.c = "\n" THEN Rep(" ", r.n) ELSE <<r>>,
                          Cat(mb_substr(content, 120),
                              IF mb_strlen(content) > 120 THEN Rep(".", 3) ELSE <<>>))
             ELSE <<>>

\* The published posts of one type, in query order.
RECURSIVE published_of_type(_, _, _)
published_of_type(d, pt, i) ==
    IF i > Len(d.posts) THEN <<>>
    ELSE (IF d.posts[i].post_type = pt /\ d.posts[i].post_status = "publish"
          THEN <<d.posts[i]>> ELSE <<>>)
            \o published_of_type(d, pt, i + 1)

\* The entries of one post type: at most 100 posts, the excluded ones skipped.
RECURSIVE type_entries(_, _, _)
type_entries(d, pt, posts) ==
    IF posts = <<>> THEN <<>>
    ELSE (IF is_excluded(posts[1]) THEN <<>>
          ELSE <<[title |-> posts[1].post_title,
                  path |-> get_context_path(d, posts[1]),
                  type |-> pt,
                  type_label |-> type_label(pt),
                  description |-> entry_description(posts[1])]>>)
            \o type_entries(d, pt, Tail(posts))

\* The entries of the product categories that hold products.
RECURSIVE category_entries(_, _)
category_entries(d, i) ==
    IF i > Len(d.cats) THEN <<>>
    ELSE LET cat == d.cats[i]
         IN  (IF cat.count > 0 /\ cat.term_id # d.default_product_cat
              THEN <<[title |-> cat.name,
                      path |-> Cat(Lit("shop/"), Lit(cat.slug)),
                      type |-> "product_cat",
                      type_label |-> Lit("Shop Categories"),
                      description |->
                          IF Truthy(cat.description)
                          THEN mb_substr(clean_text(cat.description), 120)
                          ELSE Cat(Lit(ToString(cat.count)), Lit(" products"))]>>
              ELSE <<>>)
                \o category_entries(d, i + 1)

\* array_slice($posts, 0, $n)
first_n(xs, n) == SubSeq(xs, 1, IF Len(xs) < n THEN Len(xs) ELSE n)

\* The foreach over the public post types, from type k on.
RECURSIVE entries_per_type(_, _, _)
entries_per_type(d, types, k) ==
    IF k > Len(types) THEN <<>>
    ELSE type_entries(d, types[k], first_n(published_of_type(d, types[k], 1), 100))
            \o entries_per_type(d, types, k + 1)

discover_all_entries(active, d) ==
    entries_per_type(d, public_post_types(active), 1)
        \o (IF is_woocommerce_active(active) THEN category_entries(d, 1) ELSE <<>>)

\* The labels with the label seen last placed first.
RECURSIVE group_labels_latest_first(_)
group_labels_latest_first(entries) ==
    IF entries = <<>> THEN <<>>
    ELSE LET rest == group_labels_latest_first(Tail(entries))
             label == entries[1].type_label
         IN  IF \E i \in DOMAIN rest : rest[i] = label THEN rest
             ELSE Append(rest, label)

\* The labels of the entries in first-seen order ($grouped's keys).
RECURSIVE group_labels(_)
group_labels(entries) ==
    IF entries = <<>> THEN <<>>
    ELSE LET rest == group_labels(SubSeq(entries, 1, Len(entries) - 1))
             label == entries[Len(entries)].type_label
         IN  IF \E i \in DOMAIN rest : rest[i] = label THEN rest
             ELSE Append(rest, label)

\* The lines of one group: its label, two lines per entry, a blank line.
RECURSIVE group_lines(_, _)
group_lines(entries, label) ==
    IF entries = <<>> THEN <<>>
    ELSE LET item == entries[1]
         IN  (IF item.type_label = label
              THEN <<CatAll(<<Rep(" ", 2), Rep("-", 1), Rep(" ", 1), item.title,
                              IF Truthy(item.description)
                              THEN Cat(EmDash, item.description) ELSE <<>>>>),
                     CatAll(<<Rep(" ", 4), Lit("https://"), home_domain,
                              Lit("/context/"), item.path, Lit(".txt")>>)>>
              ELSE <<>>)
                \o group_lines(Tail(entries), label)

\* The foreach over $grouped, from group k on.
RECURSIVE sitemap_lines(_, _, _)
sitemap_lines(entries, labels, k) ==
    IF k > Len(labels) THEN <<>>
    ELSE <<Cat(labels[k], Lit(":"))>> \o group_lines(entries, labels[k])
            \o << <<>> >> \o sitemap_lines(entries, labels, k + 1)

\* The "Site Map" section for the discovered entries.
sitemap_section(entries) ==
    IF entries = <<>>
    THEN Cat(section_text(Lit("Site Map"), <<>>), Lit("No published content found."))
    ELSE Cat(section_text(Lit("Site Map"), <<>>),
             trim(implode(Rep("\n", 1),
                          sitemap_lines(entries, group_labels(entries), 1))))

build_sitemap(active, d) == sitemap_section(discover_all_entries(active, d))

generate_index(st, active, d) ==
    implode(Rep("\n", 2),
            array_filter(<<build_header(st), build_metadata(st, active, d),
                           build_sitemap(active, d)>>))

\* get_page_by_path($path) for a path of one or two segments: a page of any
\* status whose chain of parents spells the path.
get_page_by_path(d, segments) ==
    LET hits == { i \in DOMAIN d.posts :
                    /\ d.posts[i].post_type = "page"
                    /\ d.posts[i].post_name = segments[Len(segments)]
                    /\ IF Len(segments) = 1 THEN d.posts[i].post_parent = 0
                       ELSE /\ get_post(d, d.posts[i].post_parent) # None
                            /\ LET parent == get_post(d, d.posts[i].post_parent)[1]
                               IN  /\ parent.post_type = "page"
                                   /\ parent.post_name = segments[1]
                                   /\ parent.post_parent = 0 }
    IN  IF hits = {} THEN None
        ELSE Some(d.posts[CHOOSE i \in hits : \A j \in hits : i <= j])

\* get_posts by name without the 'post_status' => 'publish' argument.
get_posts_by_name_any_status(d, slug, types) ==
    LET hits == { i \in DOMAIN d.posts :
                    /\ d.posts[i].post_name = slug
                    /\ d.posts[i].post_type \in types }
    IN  IF hits = {} THEN None
        ELSE Some(d.posts[CHOOSE i \in hits : \A j \in hits : j <= i])

\* get_posts(['name' => $slug, 'post_status' => 'publish', 'numberposts' => 1,
\* 'post_type' => $types]): the newest match.
get_posts_by_name(d, slug, types) ==
    LET hits == { i \in DOMAIN d.posts :
                    /\ d.posts[i].post_name = slug
                    /\ d.posts[i].post_status = "publish"
                    /\ d.posts[i].post_type \in types }
    IN  IF hits = {} THEN None
        ELSE Some(d.posts[CHOOSE i \in hits : \A j \in hits : j <= i])

find_post(active, d, slug, type) ==
    LET public == { public_post_types(active)[i] : i \in DOMAIN public_post_types(active) }
        mapped == type \in {"blog", "products"}
        parent == IF type # "" /\ ~mapped THEN get_page_by_path(d, <<type>>) ELSE None
        post_type == IF type = "" THEN "any"
                     ELSE IF type = "blog" THEN "post"
                     ELSE IF type = "products" THEN "product"
                     ELSE IF parent # None THEN "page"
                     ELSE IF type \in public THEN type
                     ELSE "any"
        parent_slug == IF parent # None THEN type ELSE ""
        page == IF parent_slug # "" THEN get_page_by_path(d, <<parent_slug, slug>>)
                ELSE None
    IN  IF page # None /\ page[1].post_status = "publish" THEN page
        ELSE get_posts_by_name(d, slug,
                               IF post_type # "any" THEN {post_type} ELSE public)

\* if (!$post) return null; return $this->build_page_context($post);
context_of_found(st, active, d, post) ==
    IF post = None THEN None
    ELSE Some(build_page_context(st, active, d, post[1]))

generate_page(st, active, d, slug, type) ==
    IF Coalesce(st.mode, "auto") = "manual"
    THEN generate_manual_page(st, active, d, slug)
    ELSE IF type = "shop" /\ is_woocommerce_active(active)
    THEN build_category_context(st, d, slug)
    ELSE context_of_found(st, active, d, find_post(active, d, slug, type))

\* ------------------------------------------------------------------------
\*  State shared by the specifications
\* ------------------------------------------------------------------------

\* get_option('protocontext_settings', []) before any save: no key is set.
NoSettings == [site_name |-> None, description |-> None, lang |-> None,
               topics |-> None, industry |-> None, mode |-> None]

EmptyDb == [posts |-> <<>>, cats |-> <<>>, sections |-> <<>>,
            currency |-> Lit("USD"), shop_pages |-> {}, default_product_cat |-> 0]

\* Sample positions: every offset within PosSpread of a threshold.
PosSpread == 2

Around(t) == (t - PosSpread) .. (t + PosSpread)

\* The positions (0-based) of the characters of t that belong to set S.
RECURSIVE PositionsFrom(_, _, _)
PositionsFrom(t, S, start) ==
    IF t = <<>> THEN {}
    ELSE LET w == t[1].n * TokChars(t[1].c)
         IN  (IF t[1].c \in S THEN start .. (start + w - 1) ELSE {})
                \cup PositionsFrom(Tail(t), S, start + w)

Positions(t, S) == PositionsFrom(t, S, 0)

SetMax(S) == CHOOSE x \in S : \A y \in S : y <= x

\* ------------------------------------------------------------------------
\*  Specification of truncate as a pure function
\* ------------------------------------------------------------------------

Breaks == {"", ".", "\n"}

TruncateInputs ==
    { CatAll(<<Rep("a", i), Rep(x, 1), Rep("a", j), Rep(y, 1), Rep("a", k)>>) :
        i \in {0} \cup Around(max_section_chars \div 2),
        x \in Breaks,
        j \in {0, 1} \cup Around(max_section_chars \div 2),
        y \in Breaks,
        k \in {0, 1, max_section_chars} }

\* A pure function is checked by drawing its argument in the initial state
\* (op = "call") and applying it in one step.
InitTruncate ==
    /\ NoServer
    /\ settings = NoSettings
    /\ wc = FALSE
    /\ db = EmptyDb
    /\ op = "call"
    /\ arg \in TruncateInputs
    /\ ret = <<>>

CallTruncate ==
    /\ op = "call"
    /\ op' = "truncate"
    /\ ret' = truncate(arg)
    /\ UNCHANGED <<server, settings, wc, db, arg>>

SpecTruncate == InitTruncate /\ [][CallTruncate]_vars

\* C8: truncate returns a body of at most 1000 characters unchanged; a longer
\* body yields at most 1003 characters: the prefix ending at the last '.' or
\* newline of the first 1000 characters when that index is greater than 500,
\* and otherwise the first 1000 characters followed by '...'.
C8_TruncateContract ==
    op = "truncate" =>
        LET C == 1000
            window == mb_substr(arg, C)
            marks == { i \in Positions(window, {".", "\n"}) : 2 * i > C }
        IN  /\ mb_strlen(arg) <= C => ret = arg
            /\ mb_strlen(arg) > C =>
                  /\ mb_strlen(ret) <= C + 3
                  /\ marks # {} => ret = mb_substr(arg, SetMax(marks) + 1)
                  /\ marks = {} => ret = window \o Rep(".", 3)

\* A body longer than the cap that was cut at a sentence or line boundary.
C8_Witness ==
    /\ op = "truncate"
    /\ mb_strlen(arg) > 1000
    /\ mb_strlen(ret) <= 1000
    /\ ret # mb_substr(arg, 1000)

\* ------------------------------------------------------------------------
\*  Specification of split_into_sections as a pure function
\* ------------------------------------------------------------------------

\* Number of lines of the sampled prose.
MaxLines == 4

\* "Aaaa Aaa", "AAAAA", "Aaa", "0000": lines the segmenter takes for headings.
TitleLine == CatAll(<<Rep("A", 1), Rep("a", 3), Rep(" ", 1), Rep("A", 1), Rep("a", 2)>>)

CapsLine == Rep("A", 5)

ShortTitleLine == CatAll(<<Rep("A", 1), Rep("a", 2)>>)

DigitLine == Rep("0", 4)

\* A sentence of n characters: lower-case letters closed by a period.
Sentence(n) == Cat(Rep("a", n - 1), Rep(".", 1))

LineKinds ==
    {TitleLine, CapsLine, ShortTitleLine, DigitLine, <<>>}
        \cup { Sentence(n) : n \in {12, 30, 31, max_section_chars + 200} }

\* What clean_text can return: trimmed, and never three newlines in a row.
IsClean(t) ==
    /\ trim(t) = t
    /\ \A i \in 1 .. Len(t) : t[i].c = "\n" => t[i].n <= 2

ProseInputs ==
    { c \in { implode(Rep("\n", 1), ls) :
                ls \in UNION { [1 .. n -> LineKinds] : n \in 1 .. MaxLines } } :
        Truthy(c) /\ IsClean(c) }

PageTitles == { CatAll(<<Rep("A", 1), Rep("a", 1), Rep(" ", 1), Rep("a", 2)>>) }

InitSegmenter ==
    /\ NoServer
    /\ settings = NoSettings
    /\ wc = FALSE
    /\ db = EmptyDb
    /\ op = "call"
    /\ arg \in [content : ProseInputs, page_title : PageTitles]
    /\ ret = <<>>

CallSplitIntoSections ==
    /\ op = "call"
    /\ op' = "split_into_sections"
    /\ ret' = split_into_sections(arg.content, arg.page_title)
    /\ UNCHANGED <<server, settings, wc, db, arg>>

SpecSegmenter == InitSegmenter /\ [][CallSplitIntoSections]_vars

\* ------------------------------------------------------------------------
\*  Specification of the generator: one instance is constructed per request
\*  (it reads the settings), serves one call and is dropped.
\* ------------------------------------------------------------------------

\* Number of posts stored besides the first one.
MaxSidePosts == 1

\* Number of terms (categories, tags) a sampled product carries.
MaxTerms == 2

Paragraph(t) == CatAll(<<Lit("<p>"), t, Lit("</p>")>>)

NewLine == Rep("\n", 1)

Contents ==
    [empty     |-> <<>>,
     zero      |-> Rep("0", 1),
     short     |-> Sentence(12),
     markup    |-> CatAll(<<Lit("[sc]"), Paragraph(Sentence(40)), Paragraph(TitleLine),
                            Paragraph(Cat(Sentence(20), Cat(Lit("<br>"), Sentence(20))))>>),
     heads     |-> CatAll(<<TitleLine, NewLine, Sentence(40), NewLine,
                            CapsLine, NewLine, Sentence(31)>>),
     long      |-> Sentence(max_section_chars + 200),
     longline  |-> Cat(Sentence(170), Cat(NewLine, Sentence(40))),
     crumbs    |-> CatAll(<<TitleLine, NewLine, Sentence(12), NewLine,
                            CapsLine, NewLine, Sentence(12)>>)]

Excerpts ==
    [none    |-> <<>>,
     fits    |-> Sentence(160),
     over    |-> Sentence(161),
     long    |-> Sentence(200),
     markup  |-> Paragraph(Cat(Rep(" ", 2), Sentence(20)))]

ShortTitle == CatAll(<<Rep("A", 1), Rep("a", 4)>>)

BaseProduct ==
    [sku |-> <<>>, price |-> Lit("29.99"), on_sale |-> FALSE,
     regular_price |-> Lit("39.99"), sale_price |-> Lit("29.99"),
     in_stock |-> TRUE, stock_quantity |-> None, cats |-> <<>>, tags |-> <<>>,
     weight |-> <<>>, dimensions |-> Lit("N/A"),
     permalink |-> Lit("https://example.com/product/widget/"),
     image_id |-> 0, image_url |-> <<>>, attributes |-> <<>>,
     type |-> "simple", variations |-> <<>>, upsells |-> <<>>, cross_sells |-> <<>>]

\* An attribute whose option text alone is larger than the size ceiling.
HugeAttribute ==
    [name |-> Lit("Color"), options |-> <<Rep("a", max_total_bytes + 1000)>>]

MkPost(id, type, name, title, excerpt, content, parent, product) ==
    [ID |-> id, post_type |-> type, post_name |-> name, post_title |-> title,
     post_excerpt |-> excerpt, post_content |-> content, post_parent |-> parent,
     post_status |-> "publish", modified |-> Some(Lit("2026-01-15")),
     categories |-> <<>>, tags |-> <<>>, acf_text |-> <<>>,
     elementor_text |-> None, product |-> product,
     cat_slugs |-> IF type = "product" THEN {"gadgets"} ELSE {}]

MainPosts ==
    { MkPost(1, "page", "about", ShortTitle, Excerpts[e], Contents.short, 0, None) :
        e \in DOMAIN Excerpts }
    \cup { MkPost(1, "page", "about", ShortTitle, <<>>, Contents[c], 0, None) :
        c \in DOMAIN Contents }
    \cup { [MkPost(1, "post", "news", ShortTitle, <<>>, Contents.long, 0, None)
             EXCEPT !.categories = <<[slug |-> "uncategorized", name |-> Lit("Uncategorized")],
                                     [slug |-> "press", name |-> Lit("Press")]>>,
                    !.tags = <<Lit("Press"), Lit("Launch")>>,
                    !.acf_text = Sentence(40)] }
    \cup { MkPost(1, "product", "widget", ShortTitle, Excerpts[e], Contents[c], 0,
                  Some([BaseProduct EXCEPT !.sku = k, !.in_stock = i, !.attributes = a,
                                           !.cats = <<Lit("Gadgets")>>])) :
        e \in {"none", "long"}, c \in {"empty", "heads"},
        k \in {<<>>, Rep("0", 1), Lit("sku-123")}, i \in BOOLEAN,
        a \in {<<>>, <<HugeAttribute>>} }
    \cup { MkPost(1, "product", "widget", ShortTitle, <<>>, Contents.heads, 0,
                  Some([BaseProduct EXCEPT
                          !.attributes = <<[name |-> Lit("Color"),
                                            options |-> <<Lit("Red"), Lit("Blue")>>]>>,
                          !.type = "variable",
                          !.variations = <<[exists |-> TRUE, attr_str |-> Lit("Color: Red"),
                                            price |-> Lit("31.00"),
                                            sku |-> Lit("sku-123-red"),
                                            in_stock |-> TRUE]>>,
                          !.upsells = <<[exists |-> TRUE, status |-> "publish", id |-> 9,
                                         name |-> Lit("Gizmo"), price |-> Lit("9.99"),
                                         slug |-> "gizmo"]>>])) }
    \cup { MkPost(1, "product", "widget", ShortTitle, <<>>, Contents.short, 0, None) }

SidePosts(id) ==
    { MkPost(id, "page", "team", ShortTitle, Excerpts.markup, Contents.short, 1, None),
      MkPost(id, "page", "blog", ShortTitle, <<>>, Contents.heads, 0, None),
      MkPost(id, "product", "gizmo", ShortTitle, Excerpts.long, Contents.short, 0,
             Some([BaseProduct EXCEPT !.sku = Lit("sku-9"), !.in_stock = FALSE])) }

RECURSIVE SideSeqs(_)
SideSeqs(n) ==
    IF n = 0 THEN { <<>> }
    ELSE SideSeqs(n - 1)
            \cup { Append(ss, p) : ss \in { x \in SideSeqs(n - 1) : Len(x) = n - 1 },
                                  p \in SidePosts(n + 1) }

Catalogs ==
    { <<>>,
      <<[term_id |-> 10, slug |-> "gadgets", name |-> Lit("Gadgets"),
         description |-> <<>>, count |-> 1, parent |-> 0]>>,
      <<[term_id |-> 10, slug |-> "gadgets", name |-> Lit("Gadgets"),
         description |-> Paragraph(Sentence(200)), count |-> 2, parent |-> 0],
        [term_id |-> 11, slug |-> "phones", name |-> Lit("Phones"),
         description |-> <<>>, count |-> 1, parent |-> 10]>> }

FaqTitle == Lit("FAQ")

\* The saved settings and manual sections that are sampled.
Configs ==
    { [settings |-> NoSettings, sections |-> <<>>],
      [settings |-> [site_name |-> Some(ShortTitle), description |-> Some(Sentence(200)),
                     lang |-> Some(Lit("it")), topics |-> Some(Lit("spa, wellness")),
                     industry |-> Some(Lit("hospitality")), mode |-> Some("auto")],
       sections |-> <<>>],
      [settings |-> [site_name |-> Some(ShortTitle), description |-> Some(Sentence(160)),
                     lang |-> Some(Lit("en")), topics |-> Some(<<>>),
                     industry |-> Some(<<>>), mode |-> Some("auto")],
       sections |-> <<>>],
      [settings |-> [site_name |-> Some(ShortTitle), description |-> Some(<<>>),
                     lang |-> Some(Lit("en")), topics |-> Some(<<>>),
                     industry |-> Some(<<>>), mode |-> Some("manual")],
       sections |-> <<[title |-> FaqTitle, slug |-> "faq", body |-> Paragraph(Sentence(40))],
                      [title |-> ShortTitle, slug |-> "about",
                       body |-> Rep("a", max_total_bytes)]>>] }

Init ==
    /\ NoServer
    /\ \E cfg \in Configs, main \in MainPosts, side \in SideSeqs(MaxSidePosts),
          cats \in Catalogs, active \in BOOLEAN :
          /\ active \/ (cats = <<>> /\ \A i \in DOMAIN (<<main>> \o side) :
                                          (<<main>> \o side)[i].post_type # "product")
          /\ settings = cfg.settings
          /\ wc = active
          /\ db = [posts |-> <<main>> \o side, cats |-> cats, sections |-> cfg.sections,
                   currency |-> IF cats = <<>> THEN Lit("USD") ELSE Lit("EUR"),
                   shop_pages |-> {2}, default_product_cat |-> 0]
    /\ op = "constructed"
    /\ arg = <<>>
    /\ ret = None

RequestSlugs ==
    { db.posts[i].post_name : i \in DOMAIN db.posts }
        \cup { db.cats[i].slug : i \in DOMAIN db.cats }
        \cup { db.sections[i].slug : i \in DOMAIN db.sections }
        \cup {"missing"}

RequestTypes ==
    {"", "blog", "products", "shop"}
        \cup { db.posts[i].post_name : i \in { j \in DOMAIN db.posts :
                                                  db.posts[j].post_type = "page" } }

GenerateIndex ==
    /\ op = "constructed"
    /\ op' = "generate_index"
    /\ arg' = <<>>
    /\ ret' = Some(generate_index(settings, wc, db))
    /\ UNCHANGED <<server, settings, wc, db>>

GeneratePage ==
    /\ op = "constructed"
    /\ \E slug \in RequestSlugs, type \in RequestTypes :
          /\ op' = "generate_page"
          /\ arg' = [slug |-> slug, type |-> type]
          /\ ret' = generate_page(settings, wc, db, slug, type)
    /\ UNCHANGED <<server, settings, wc, db>>

Next == GenerateIndex \/ GeneratePage

Spec == Init /\ [][Next]_vars

\* ------------------------------------------------------------------------
\*  Specification of the structured block emitter: build_product_sections
\*  and build_category_context as pure functions of the store's data
\* ------------------------------------------------------------------------

\* Number of product posts in a sampled category.
MaxListed == 2

TermNames == <<Lit("Gadgets"), Lit("Phones"), Lit("Audio")>>

\* The category lists of a product: the first n term names, n up to MaxTerms.
TermLists == { SubSeq(TermNames, 1, n) : n \in 0 .. MaxTerms }

Skus == { <<>>, Rep("0", 1), Lit("sku-123") }

Variation == [exists |-> TRUE, attr_str |-> Lit("Color: Red"), price |-> Lit("31.00"),
              sku |-> Lit("sku-123-red"), in_stock |-> TRUE]

Related(id) == [exists |-> TRUE, status |-> "publish", id |-> id, name |-> Lit("Gizmo"),
                price |-> Lit("9.99"), slug |-> "gizmo"]

\* The products whose blocks are emitted.
Products ==
    { [BaseProduct EXCEPT !.sku = k, !.price = p, !.on_sale = s, !.in_stock = i,
                          !.stock_quantity = q, !.cats = c, !.tags = t,
                          !.weight = w[1], !.dimensions = w[2],
                          !.image_id = g[1], !.image_url = g[2],
                          !.attributes = a[1], !.type = a[2], !.variations = a[3],
                          !.upsells = r, !.cross_sells = r] :
        k \in Skus, p \in { <<>>, Lit("29.99") }, s \in BOOLEAN, i \in BOOLEAN,
        q \in { None, Some(0), Some(5) }, c \in TermLists,
        t \in { <<>>, <<Lit("Sale")>> },
        w \in { << <<>>, Lit("N/A") >>, << Lit("1.5"), Lit("10 x 5 x 2 cm") >> },
        g \in { <<0, <<>> >>, <<7, Lit("https://example.com/widget.jpg")>> },
        a \in { << <<>>, "simple", <<>> >>,
                << <<[name |-> Lit("Color"), options |-> <<Lit("Red"), Lit("Blue")>>]>>,
                   "variable", <<Variation>> >> },
        r \in { <<>>, <<Related(9)>> } }

Currencies == { Lit("USD"), Lit("EUR") }

\* The product posts of a category listing.
ListedPosts(id) ==
    { MkPost(id, "product", "widget", ShortTitle, Excerpts[e], <<>>, 0,
             Some([BaseProduct EXCEPT !.sku = k, !.in_stock = i])) :
        e \in {"none", "long"}, k \in Skus, i \in BOOLEAN }
    \cup { MkPost(id, "product", "ghost", ShortTitle, <<>>, <<>>, 0, None) }

RECURSIVE ListedSeqs(_)
ListedSeqs(n) ==
    IF n = 0 THEN { <<>> }
    ELSE ListedSeqs(n - 1)
            \cup { Append(ps, p) : ps \in { x \in ListedSeqs(n - 1) : Len(x) = n - 1 },
                                  p \in ListedPosts(n) }

EmitterInputs ==
    { [kind |-> "product", product |-> Some(p), product_id |-> 42, currency |-> c,
       d |-> EmptyDb, slug |-> ""] : p \in Products, c \in Currencies }
    \cup { [kind |-> "product", product |-> None, product_id |-> 42,
            currency |-> Lit("USD"), d |-> EmptyDb, slug |-> ""] }
    \cup { [kind |-> "category", product |-> None, product_id |-> 0, currency |-> c,
            d |-> [EmptyDb EXCEPT !.posts = ps, !.cats = cats, !.currency = c],
            slug |-> g] :
            ps \in ListedSeqs(MaxListed), c \in Currencies,
            cats \in Catalogs \ { <<>> }, g \in {"gadgets", "missing"} }

InitEmitter ==
    /\ NoServer
    /\ settings = NoSettings
    /\ wc = TRUE
    /\ db = EmptyDb
    /\ op = "call"
    /\ arg \in EmitterInputs
    /\ ret = <<>>

CallBuildProductSections ==
    /\ op = "call"
    /\ arg.kind = "product"
    /\ op' = "build_product_sections"
    /\ ret' = build_product_sections(arg.product, arg.product_id, arg.currency,
                                     home_domain)
    /\ UNCHANGED <<server, settings, wc, db, arg>>

CallBuildCategoryContext ==
    /\ op = "call"
    /\ arg.kind = "category"
    /\ op' = "build_category_context"
    /\ ret' = build_category_context(settings, arg.d, arg.slug)
    /\ UNCHANGED <<server, settings, wc, db, arg>>

NextEmitter == CallBuildProductSections \/ CallBuildCategoryContext

SpecEmitter == InitEmitter /\ [][NextEmitter]_vars

\* ------------------------------------------------------------------------
\*  Specification of the site: an instance is constructed over a small site
\*  of pages and posts and serves the index, one path or one page
\* ------------------------------------------------------------------------

\* Number of posts in the sampled site.
MaxItems == 3

SiteSlugs == {"about", "news", "blog"}

\* An excerpt of two paragraphs.
TwoParagraphs == Cat(Paragraph(Sentence(20)), Paragraph(Sentence(20)))

\* The page or post with the given slug; its excerpt and content go with the
\* slug and the type.
SiteItem(id, type, slug, parent, status) ==
    [MkPost(id, type, slug, ShortTitle,
            IF type = "page" /\ slug = "news" THEN TwoParagraphs
            ELSE IF type = "page" /\ slug = "blog" THEN Excerpts.long
            ELSE <<>>,
            IF type = "page" /\ slug = "about" THEN Contents.longline
            ELSE Contents.short,
            parent, None)
     EXCEPT !.post_status = status]

SitePool(id) ==
    { SiteItem(id, "page", slug, parent, "publish") :
        slug \in SiteSlugs, parent \in 0 .. (id - 1) }
    \cup { SiteItem(id, "post", "news", 0, "publish"),
           SiteItem(id, "event", "news", 0, "publish"),
           [SiteItem(id, "product", "widget", 0, "publish")
               EXCEPT !.product = Some(BaseProduct)],
           SiteItem(id, "page", "about", 0, "draft") }

\* wp_unique_post_slug: no two posts of a type share a slug (pages: under the
\* same parent); the parent of a page is a page.
ValidSite(posts) ==
    /\ \A i, j \in DOMAIN posts :
          (/\ i # j
           /\ posts[i].post_type = posts[j].post_type
           /\ posts[i].post_parent = posts[j].post_parent)
            => posts[i].post_name # posts[j].post_name
    /\ \A i \in DOMAIN posts :
          posts[i].post_parent # 0 => posts[posts[i].post_parent].post_type = "page"

RECURSIVE SiteSeqs(_)
SiteSeqs(n) ==
    IF n = 0 THEN { <<>> }
    ELSE SiteSeqs(n - 1)
            \cup { Append(ps, p) : ps \in { x \in SiteSeqs(n - 1) : Len(x) = n - 1 },
                                  p \in SitePool(n) }

SiteConfigs == { cfg \in Configs : cfg.settings.mode \in {None, Some("manual")} }

InitSite ==
    /\ NoServer
    /\ \E cfg \in SiteConfigs, posts \in { ps \in SiteSeqs(MaxItems) : ValidSite(ps) },
          active \in BOOLEAN :
          /\ settings = cfg.settings
          /\ wc = active
          /\ db = [posts |-> posts,
                   cats |-> IF active THEN CHOOSE c \in Catalogs : Len(c) = 2 ELSE <<>>,
                   sections |-> cfg.sections, currency |-> Lit("EUR"),
                   shop_pages |-> {}, default_product_cat |-> 0]
    /\ op = "constructed"
    /\ arg = <<>>
    /\ ret = None

SiteGenerateIndex ==
    /\ op = "constructed"
    /\ op' = "generate_index"
    /\ arg' = <<>>
    /\ ret' = Some(generate_index(settings, wc, db))
    /\ UNCHANGED <<server, settings, wc, db>>

SiteGetContextPath ==
    /\ op = "constructed"
    /\ \E i \in DOMAIN db.posts :
          /\ op' = "get_context_path"
          /\ arg' = db.posts[i]
          /\ ret' = Some(get_context_path(db, db.posts[i]))
    /\ UNCHANGED <<server, settings, wc, db>>

SiteRequestTypes == {"", "blog", "shop", "about"}

SiteGeneratePage ==
    /\ op = "constructed"
    /\ \E slug \in SiteSlugs \cup {"gadgets", "faq"}, type \in SiteRequestTypes :
          /\ op' = "generate_page"
          /\ arg' = [slug |-> slug, type |-> type]
          /\ ret' = generate_page(settings, wc, db, slug, type)
    /\ UNCHANGED <<server, settings, wc, db>>

NextSite == SiteGenerateIndex \/ SiteGetContextPath \/ SiteGeneratePage

SpecSite == InitSite /\ [][NextSite]_vars

\* ------------------------------------------------------------------------
\*  Specification of clean_text as a pure function, applied to a raw text
\*  and then to its own result
\* ------------------------------------------------------------------------

\* Number of runs in a sampled raw text.
MaxTokens == 3

RawRuns ==
    { Run(c, 1) : c \in {"a", "<p>", "</p>", "<b>", "<script>x</script>", "[sc]",
                         "&lt;b&gt;", "&amp;lt;b&amp;gt;", "ZWSP"} }
    \cup { Run(c, n) : c \in {" ", "\n"}, n \in {1, 3} }

RECURSIVE RawTexts(_)
RawTexts(n) ==
    IF n = 0 THEN { <<>> }
    ELSE RawTexts(n - 1)
            \cup { Append(t, r) : t \in { x \in RawTexts(n - 1) : Len(x) = n - 1 },
                                  r \in RawRuns }

\* A PHP string has no two adjacent runs of one token.
IsText(t) == \A i \in 1 .. Len(t) - 1 : t[i].c # t[i + 1].c

InitNormalizer ==
    /\ NoServer
    /\ settings = NoSettings
    /\ wc = FALSE
    /\ db = EmptyDb
    /\ op = "call"
    /\ arg \in { t \in RawTexts(MaxTokens) : IsText(t) }
    /\ ret = <<>>

CallCleanText ==
    /\ op = "call"
    /\ op' = "clean_text"
    /\ ret' = clean_text(arg)
    /\ UNCHANGED <<server, settings, wc, db, arg>>

CallCleanTextAgain ==
    /\ op = "clean_text"
    /\ op' = "clean_text_again"
    /\ arg' = ret
    /\ ret' = clean_text(ret)
    /\ UNCHANGED <<server, settings, wc, db>>

NextNormalizer == CallCleanText \/ CallCleanTextAgain

SpecNormalizer == InitNormalizer /\ [][NextNormalizer]_vars

\* ------------------------------------------------------------------------
\*  Specification of the server: request handlers run as separate processes
\*  over one database, each a sequence of database reads and writes, while
\*  the settings form saves the settings or the manual sections
\* ------------------------------------------------------------------------

\* Number of saves of the settings form in a behaviour.
MaxSaves == 1

\* The request handlers; each serves one request.
Handlers == {"h1", "h2"}

\* The query variables the rewrite rules produce.  A slug matched by
\* ([^/]+) is never empty.
ServerRequests ==
    { [action |-> "index", slug |-> "", type |-> ""],
      [action |-> "page", slug |-> "about", type |-> ""],
      [action |-> "page", slug |-> "faq", type |-> ""] }

ServerConfigs ==
    { cfg \in Configs : cfg.settings # NoSettings
                         /\ cfg.settings.description # Some(Sentence(160)) }

cache_key(req) ==
    IF req.action = "index" THEN "protocontext_index"
    ELSE "protocontext_page_" \o req.type \o "_" \o req.slug

\* get_transient: the cached document, or None for false.
get_transient(t, key) == IF key \in DOMAIN t THEN Some(t[key]) ELSE None

set_transient(t, key, content) ==
    [k \in DOMAIN t \cup {key} |-> IF k = key THEN content ELSE t[k]]

\* The DELETE of every option named _transient_protocontext_%.
invalidate_cache(t) == [k \in {} |-> <<>>]

output(content) == [status |-> 200, body |-> content]

not_found == [status |-> 404, body |-> Lit("# 404")]

\* $generator->generate_index() or $generator->generate_page($slug, $type) of
\* an instance whose constructor read the settings g.
generate(g, active, d, req) ==
    IF req.action = "index" THEN Some(generate_index(g, active, d))
    ELSE generate_page(g, active, d, req.slug, req.type)

\* A handler before its request arrives.
Waiting ==
    [pc |-> "waiting", req |-> <<>>, g |-> None, content |-> None, response |-> None,
     born |-> <<>>, read |-> <<>>]

\* A generator that keeps its result in storage shared by all handlers: the
\* document of the latest call replaces the one another handler holds.
generated_in_shared_buffer(rs, h, content, sections) ==
    [k \in DOMAIN rs |->
        IF k = h
        THEN [rs[k] EXCEPT !.pc = IF content = None THEN "done" ELSE "store",
                           !.content = content,
                           !.response = IF content = None THEN Some(not_found)
                                        ELSE None,
                           !.read = sections]
        ELSE IF rs[k].pc = "store" THEN [rs[k] EXCEPT !.content = content]
        ELSE rs[k]]

\* A handler that stores whatever it is about to answer: the 404 text of an
\* absent document goes on to set_transient like a document.
generated_storing_not_found(rs, h, content, sections) ==
    [rs EXCEPT ![h] = [@ EXCEPT !.pc = "store",
                                !.content = IF content = None
                                            THEN Some(not_found.body) ELSE content,
                                !.read = sections]]

\* The handler's locals once the generator has returned; read records the
\* manual sections the call read.
generated(rs, h, content, sections) ==
    [rs EXCEPT ![h] = [@ EXCEPT !.pc = IF content = None THEN "done" ELSE "store",
                                !.content = content,
                                !.response = IF content = None THEN Some(not_found)
                                             ELSE None,
                                !.read = sections]]

InitServer ==
    /\ \E cfg \in ServerConfigs :
          /\ settings = cfg.settings
          /\ db = [posts |-> <<MkPost(1, "page", "about", ShortTitle, <<>>,
                                      Contents.short, 0, None)>>,
                   cats |-> <<>>, sections |-> cfg.sections, currency |-> Lit("USD"),
                   shop_pages |-> {}, default_product_cat |-> 0]
    /\ wc = FALSE
    /\ op = "init"
    /\ arg = <<>>
    /\ ret = None
    /\ transients = invalidate_cache(<<>>)
    /\ requests = [h \in Handlers |-> Waiting]
    /\ admin = [pc |-> "idle", saves |-> 0]
    /\ updater = <<>>

\* template_redirect: a request arrives at a handler.  Handlers are
\* interchangeable, so h2 is taken after h1.
handle_request(h, accepted) ==
    /\ requests[h].pc = "waiting"
    /\ h = "h1" \/ requests["h1"].pc # "waiting"
    /\ \E req \in accepted :
          requests' = [requests EXCEPT ![h] =
                          [@ EXCEPT !.pc = "lookup", !.req = req,
                                    !.born = [saves |-> admin.saves,
                                              quiet |-> admin.pc = "idle"]]]
    /\ op' = "handle_request"
    /\ UNCHANGED <<updater, settings, wc, db, arg, ret, transients, admin>>

HandleRequest(h) == handle_request(h, ServerRequests)

\* serve_index and serve_page up to the cache lookup: the 404 of an empty
\* slug, $cached = get_transient($cache_key), and the output of a hit.
Lookup(h) ==
    /\ requests[h].pc = "lookup"
    /\ requests' = [requests EXCEPT ![h] =
          IF requests[h].req.action = "page" /\ requests[h].req.slug \in {"", "0"}
          THEN [@ EXCEPT !.pc = "done", !.response = Some(not_found)]
          ELSE IF get_transient(transients, cache_key(requests[h].req)) # None
          THEN [@ EXCEPT !.pc = "done",
                         !.response =
                             Some(output(transients[cache_key(requests[h].req)]))]
          ELSE [@ EXCEPT !.pc = "construct"]]
    /\ op' = "get_transient"
    /\ UNCHANGED <<updater, settings, wc, db, arg, ret, transients, admin>>

\* new ProtoContext_Generator(): the constructor reads the settings.
Construct(h) ==
    /\ requests[h].pc = "construct"
    /\ requests' = [requests EXCEPT ![h] = [@ EXCEPT !.pc = "generate",
                                                     !.g = Some(settings)]]
    /\ op' = "__construct"
    /\ UNCHANGED <<updater, settings, wc, db, arg, ret, transients, admin>>

\* $content = $generator->generate_index() or generate_page($slug, $type);
\* null is answered with not_found and is not cached.
Generate(h) ==
    /\ requests[h].pc = "generate"
    /\ requests' = generated(requests, h,
                             generate(requests[h].g[1], wc, db, requests[h].req),
                             db.sections)
    /\ op' = "generate"
    /\ UNCHANGED <<updater, settings, wc, db, arg, ret, transients, admin>>

\* set_transient($cache_key, $content, HOUR_IN_SECONDS) and the output.
Store(h) ==
    /\ requests[h].pc = "store"
    /\ transients' = set_transient(transients, cache_key(requests[h].req),
                                   requests[h].content[1])
    /\ requests' = [requests EXCEPT ![h] =
                       [@ EXCEPT !.pc = "done",
                                 !.response = Some(output(requests[h].content[1]))]]
    /\ op' = "set_transient"
    /\ UNCHANGED <<updater, settings, wc, db, arg, ret, admin>>

\* A transient is dropped when its hour has passed.
Expire ==
    /\ \E key \in DOMAIN transients :
          transients' = [k \in DOMAIN transients \ {key} |-> transients[k]]
    /\ op' = "expire"
    /\ UNCHANGED <<updater, settings, wc, db, arg, ret, requests, admin>>

\* update_option('protocontext_settings'): a changed value is written and the
\* update_option_protocontext_settings hook is due.
UpdateSettings ==
    /\ admin.pc = "idle"
    /\ admin.saves < MaxSaves
    /\ \E cfg \in ServerConfigs :
          /\ cfg.settings # settings
          /\ settings' = cfg.settings
    /\ admin' = [pc |-> "on_settings_update", saves |-> admin.saves + 1]
    /\ op' = "update_option_protocontext_settings"
    /\ UNCHANGED <<updater, wc, db, arg, ret, transients, requests>>

\* update_option('protocontext_sections'), likewise.
UpdateSections ==
    /\ admin.pc = "idle"
    /\ admin.saves < MaxSaves
    /\ \E cfg \in ServerConfigs :
          /\ cfg.sections # db.sections
          /\ db' = [db EXCEPT !.sections = cfg.sections]
    /\ admin' = [pc |-> "on_settings_update", saves |-> admin.saves + 1]
    /\ op' = "update_option_protocontext_sections"
    /\ UNCHANGED <<updater, settings, wc, arg, ret, transients, requests>>

\* on_settings_update: ProtoContext_Server::invalidate_cache().
OnSettingsUpdate ==
    /\ admin.pc = "on_settings_update"
    /\ transients' = invalidate_cache(transients)
    /\ admin' = [admin EXCEPT !.pc = "idle"]
    /\ op' = "on_settings_update"
    /\ UNCHANGED <<updater, settings, wc, db, arg, ret, requests>>

NextServer ==
    \/ \E h \in Handlers : HandleRequest(h)
    \/ \E h \in Handlers : Lookup(h)
    \/ \E h \in Handlers : Construct(h)
    \/ \E h \in Handlers : Generate(h)
    \/ \E h \in Handlers : Store(h)
    \/ Expire
    \/ UpdateSettings
    \/ UpdateSections
    \/ OnSettingsUpdate

SpecServer == InitServer /\ [][NextServer]_vars

\* ------------------------------------------------------------------------
\*  The server on a site with child pages: /context/{parent}/{child}.txt
\* ------------------------------------------------------------------------

\* The pages 'docs' with the child 'api_v2', and 'docs_api' with the child
\* 'v2'; the index lists the children as docs/api_v2 and docs_api/v2.  The
\* page 'docs' is a draft or published.
NestedPosts(status) ==
    <<[MkPost(1, "page", "docs", ShortTitle, <<>>, Contents.short, 0, None)
         EXCEPT !.post_status = status],
      MkPost(2, "page", "api_v2", ShortTitle, <<>>, Contents.heads, 1, None),
      MkPost(3, "page", "docs_api", ShortTitle, <<>>, Contents.short, 0, None),
      MkPost(4, "page", "v2", ShortTitle, <<>>, Contents.crumbs, 3, None)>>

NestedDb(status) ==
    [posts |-> NestedPosts(status), cats |-> <<>>, sections |-> <<>>,
     currency |-> Lit("USD"), shop_pages |-> {}, default_product_cat |-> 0]

\* The query variables of /context.txt, /?protocontext=page,
\* /context/docs.txt, /context/docs/api_v2.txt and /context/docs_api/v2.txt.
NestedRequests ==
    { [action |-> "index", slug |-> "", type |-> ""],
      [action |-> "page", slug |-> "", type |-> ""],
      [action |-> "page", slug |-> "docs", type |-> ""],
      [action |-> "page", slug |-> "api_v2", type |-> "docs"],
      [action |-> "page", slug |-> "v2", type |-> "docs_api"] }

InitNested ==
    /\ settings \in { cfg.settings : cfg \in { c \in ServerConfigs : c.sections = <<>> } }
    /\ db = NestedDb("draft")
    /\ wc = FALSE
    /\ op = "init"
    /\ arg = <<>>
    /\ ret = None
    /\ transients = invalidate_cache(<<>>)
    /\ requests = [h \in Handlers |-> Waiting]
    /\ admin = [pc |-> "idle", saves |-> 0]
    /\ updater = <<>>

HandleNestedRequest(h) == handle_request(h, NestedRequests)

\* The editor publishes the draft; no hook of the plugin runs.
PublishPost ==
    /\ db = NestedDb("draft")
    /\ db' = NestedDb("publish")
    /\ op' = "publish_post"
    /\ UNCHANGED <<updater, settings, wc, arg, ret, transients, requests, admin>>

NextNested ==
    \/ PublishPost
    \/ \E h \in Handlers : HandleNestedRequest(h)
    \/ \E h \in Handlers : Lookup(h)
    \/ \E h \in Handlers : Construct(h)
    \/ \E h \in Handlers : Generate(h)
    \/ \E h \in Handlers : Store(h)
    \/ Expire

SpecNested == InitNested /\ [][NextNested]_vars

\* ------------------------------------------------------------------------
\*  ProtoContext_Generator::walk_elementor and walk_acf, and their
\*  specification as functions of a decoded field tree
\* ------------------------------------------------------------------------

\* A decoded value: a string, an array that is not a string, or null.
Str(t) == [is |-> "string", v |-> t]

Arr(xs) == [is |-> "array", v |-> xs]

Null == [is |-> "null", v |-> <<>>]

\* !empty($value)
not_empty(value) ==
    \/ value.is = "array" /\ value.v # <<>>
    \/ value.is = "string" /\ Truthy(value.v)

\* What a walk has done so far: the fragments in $texts, the place in the
\* tree where each was found, the deepest call, and whether a TypeError was
\* thrown (nothing runs after it).
NoTexts == [texts |-> <<>>, found |-> <<>>, depth |-> 0, raised |-> FALSE]

entered(acc, level) ==
    IF acc.raised \/ acc.depth >= level THEN acc ELSE [acc EXCEPT !.depth = level]

\* $texts[] = $t
push_text(acc, t, at) ==
    IF acc.raised THEN acc
    ELSE [acc EXCEPT !.texts = Append(@, t), !.found = Append(@, at)]

\* $texts[] = $prefix . $this->clean_text($value): clean_text(string $text)
\* throws a TypeError for an array.
push_clean(acc, prefix, value, at) ==
    IF acc.raised THEN acc
    ELSE IF value.is # "string" THEN [acc EXCEPT !.raised = TRUE]
    ELSE push_text(acc, Cat(prefix, clean_text(value.v)), at)

\* The foreach over $keys, for the key 'title': a non-empty string whose
\* clean text is longer than 3 characters.
push_key(acc, value, at) ==
    IF not_empty(value) /\ value.is = "string" /\ mb_strlen(clean_text(value.v)) > 3
    THEN push_text(acc, clean_text(value.v), at)
    ELSE acc

\* The foreach over $el['settings']['icon_list'], from item i on.
RECURSIVE push_icon_list(_, _, _, _)
push_icon_list(acc, items, i, at) ==
    IF i > Len(items) THEN acc
    ELSE push_icon_list(IF not_empty(items[i].text)
                        THEN push_clean(acc, Lit("- "), items[i].text, at)
                        ELSE acc,
                        items, i + 1, at)

\* The foreach over a repeater ('tabs'), from tab i on.
push_tab(acc, tab, at) ==
    IF not_empty(tab.tab_content)
    THEN push_clean(IF not_empty(tab.tab_title)
                    THEN push_clean(acc, <<>>, tab.tab_title, at) ELSE acc,
                    <<>>, tab.tab_content, at)
    ELSE IF not_empty(tab.tab_title) THEN push_clean(acc, <<>>, tab.tab_title, at)
    ELSE acc

RECURSIVE push_tabs(_, _, _, _)
push_tabs(acc, tabs, i, at) ==
    IF i > Len(tabs) THEN acc
    ELSE push_tabs(push_tab(acc, tabs[i], at), tabs, i + 1, at)

\* if (isset($el['settings']) && is_array($el['settings'])) { ... }
push_settings(acc, el, at) ==
    IF el.settings = None THEN acc
    ELSE push_tabs(push_icon_list(push_key(acc, el.settings[1].title, at),
                                  el.settings[1].icon_list, 1, at),
                   el.settings[1].tabs, 1, at)

\* The foreach over $elements from element i on, in the call at the given
\* level; at is the place of the parent.
RECURSIVE walk_elementor(_, _, _, _, _)
walk_elementor(elements, i, acc, at, level) ==
    IF i > Len(elements) THEN entered(acc, level)
    ELSE walk_elementor(
            elements, i + 1,
            IF elements[i].elements # <<>>
            THEN walk_elementor(elements[i].elements, 1,
                                push_settings(entered(acc, level), elements[i],
                                              Append(at, i)),
                                Append(at, i), level + 1)
            ELSE push_settings(entered(acc, level), elements[i], Append(at, i)),
            at, level)

\* preg_match('/^(https?:\/\/|\/|a:\d|O:\d)/', $value)
looks_serialized(t) == t # <<>> /\ t[1].c \in {"https://", "/", "a:1", "O:1"}

\* The string branch of walk_acf.
push_field(acc, t, at) ==
    IF mb_strlen(t) > 10 /\ mb_strlen(t) < 5000 /\ ~looks_serialized(t)
       /\ mb_strlen(clean_text(t)) > 10
    THEN push_text(acc, clean_text(t), at)
    ELSE acc

\* The foreach over $fields from field i on.
RECURSIVE walk_acf(_, _, _, _, _)
walk_acf(fields, i, acc, at, level) ==
    IF i > Len(fields) THEN entered(acc, level)
    ELSE walk_acf(
            fields, i + 1,
            IF fields[i].hidden THEN entered(acc, level)
            ELSE IF fields[i].value.is = "string"
            THEN push_field(entered(acc, level), fields[i].value.v, Append(at, i))
            ELSE IF fields[i].value.is = "array"
            THEN walk_acf(fields[i].value.v, 1, entered(acc, level), Append(at, i),
                          level + 1)
            ELSE entered(acc, level),
            at, level)

\* Depth of the sampled trees below the top level.
MaxDepth == 2

Prose == Cat(Rep("A", 1), Sentence(20))

Widget(title, icon_list, tabs) ==
    Some([title |-> title, icon_list |-> icon_list, tabs |-> tabs])

\* The settings of the sampled elements: none, a title, a title that is too
\* short, a title that is an array, a list with a text, a list whose text is
\* an array, and a tab.
ElementSettings ==
    { None,
      Widget(Str(Prose), <<>>, <<>>),
      Widget(Str(Lit("Ab")), <<>>, <<>>),
      Widget(Arr(<<Str(Prose)>>), <<>>, <<>>),
      Widget(Null, <<[text |-> Str(Prose)], [text |-> Null]>>, <<>>),
      Widget(Null, <<[text |-> Arr(<<Str(Prose)>>)]>>, <<>>),
      Widget(Null, <<>>, <<[tab_title |-> Str(Lit("Tab one")),
                            tab_content |-> Str(Prose)]>>) }

Leaf(x) == [settings |-> x, elements |-> <<>>]

\* The element lists of depth d and less.
RECURSIVE ElementLists(_)
ElementLists(d) ==
    IF d = 0
    THEN { <<Leaf(x)>> : x \in ElementSettings }
            \cup { <<Leaf(x), Leaf(Widget(Str(Lit("Last title")), <<>>, <<>>))>> :
                     x \in ElementSettings }
    ELSE ElementLists(d - 1)
            \cup { <<[settings |-> x, elements |-> l]>> :
                     x \in { y \in ElementSettings : y = None \/ y[1].title # Null },
                     l \in ElementLists(d - 1) }
            \cup { <<[settings |-> None, elements |-> l],
                     Leaf(Widget(Str(Lit("After")), <<>>, <<>>))>> :
                     l \in ElementLists(d - 1) }

Field(hidden, value) == [hidden |-> hidden, value |-> value]

\* The sampled fields: prose, prose under a key that starts with '_', a URL,
\* a short string and a number.
LeafFields ==
    { Field(FALSE, Str(Prose)), Field(TRUE, Str(Prose)),
      Field(FALSE, Str(Cat(Lit("https://"), Rep("a", 20)))),
      Field(FALSE, Str(Lit("Ab"))), Field(FALSE, Null) }

RECURSIVE FieldLists(_)
FieldLists(d) ==
    IF d = 0
    THEN { <<x>> : x \in LeafFields }
            \cup { <<x, Field(FALSE, Str(Cat(Rep("B", 1), Sentence(20))))>> :
                     x \in LeafFields }
    ELSE FieldLists(d - 1)
            \cup { <<Field(h, Arr(l))>> : h \in BOOLEAN, l \in FieldLists(d - 1) }
            \cup { <<Field(FALSE, Arr(l)),
                     Field(FALSE, Str(Cat(Rep("C", 1), Sentence(20))))>> :
                     l \in FieldLists(d - 1) }

InitExtractor ==
    /\ NoServer
    /\ settings = NoSettings
    /\ wc = FALSE
    /\ db = EmptyDb
    /\ op = "call"
    /\ arg \in { [walk |-> "elementor", tree |-> l] : l \in ElementLists(MaxDepth) }
                \cup { [walk |-> "acf", tree |-> l] : l \in FieldLists(MaxDepth) }
    /\ ret = NoTexts

\* extract_elementor_text: $this->walk_elementor($data, $texts)
CallWalkElementor ==
    /\ op = "call"
    /\ arg.walk = "elementor"
    /\ op' = "walk_elementor"
    /\ ret' = walk_elementor(arg.tree, 1, NoTexts, <<>>, 1)
    /\ UNCHANGED <<server, settings, wc, db, arg>>

\* extract_acf_fields: $this->walk_acf($fields, $texts)
CallWalkAcf ==
    /\ op = "call"
    /\ arg.walk = "acf"
    /\ op' = "walk_acf"
    /\ ret' = walk_acf(arg.tree, 1, NoTexts, <<>>, 1)
    /\ UNCHANGED <<server, settings, wc, db, arg>>

NextExtractor == CallWalkElementor \/ CallWalkAcf

SpecExtractor == InitExtractor /\ [][NextExtractor]_vars

\* ------------------------------------------------------------------------
\*  The editor's conversions (web/src/lib/context-txt): prepareForEditor and
\*  serializeToContextTxt, and their specification on a context.txt text.
\*  A text is written with the tokens "## " and "section:", runs of spaces
\*  and newlines, and words.
\* ------------------------------------------------------------------------

\* \s
PatternSpace == {" ", "\n"}

\* The first run of t at or after i that is not whitespace; Len(t) + 1 if
\* there is none.
after_space(t, i) ==
    LET S == { j \in i .. Len(t) : t[j].c \notin PatternSpace }
    IN  IF S = {} THEN Len(t) + 1 ELSE CHOOSE j \in S : \A k \in S : j <= k

\* ^ under the m flag: run i begins the text or follows a newline.
at_line_start(t, i) == i = 1 \/ t[i - 1].c = "\n"

\* /^## section:\s*/gm matches at run i.
section_prefix_at(raw, i) ==
    /\ at_line_start(raw, i)
    /\ raw[i] = Run("## ", 1)
    /\ i < Len(raw)
    /\ raw[i + 1].c = "section:"

\* raw.replace(/^## section:\s*/gm, '## ') from run i on.
RECURSIVE prepare_from(_, _)
prepare_from(raw, i) ==
    IF i > Len(raw) THEN <<>>
    ELSE IF section_prefix_at(raw, i)
    THEN IF raw[i + 1].n > 1
         THEN CatAll(<<Rep("## ", 1), Rep("section:", raw[i + 1].n - 1),
                       prepare_from(raw, i + 2)>>)
         ELSE Cat(Rep("## ", 1), prepare_from(raw, after_space(raw, i + 2)))
    ELSE Cat(<<raw[i]>>, prepare_from(raw, i + 1))

\* if (!raw) return ''
prepareForEditor(raw) == IF raw = <<>> THEN <<>> ELSE prepare_from(raw, 1)

\* /^## (?!section:)(.+)/gm matches at run i.
plain_heading_at(md, i) ==
    /\ at_line_start(md, i)
    /\ md[i] = Run("## ", 1)
    /\ i < Len(md)
    /\ md[i + 1].c \notin {"section:", "\n"}

\* md.replace(/^## (?!section:)(.+)/gm, '## section: $1') from run i on.
RECURSIVE serialize_from(_, _)
serialize_from(md, i) ==
    IF i > Len(md) THEN <<>>
    ELSE IF plain_heading_at(md, i)
    THEN CatAll(<<Rep("## ", 1), Rep("section:", 1), Rep(" ", 1),
                  serialize_from(md, i + 1)>>)
    ELSE Cat(<<md[i]>>, serialize_from(md, i + 1))

serializeToContextTxt(md) == IF md = <<>> THEN <<>> ELSE serialize_from(md, 1)

\* Number of lines of the sampled documents.
MaxRawLines == 3

\* The sampled lines: a section heading, one with an empty title, one with
\* two spaces, one with no space, one whose title begins with "section:", a
\* heading without the prefix, a document title, a line of text and a blank
\* line.
RawLines ==
    { CatAll(<<Rep("## ", 1), Rep("section:", 1), Rep(" ", 1), Lit("Title")>>),
      CatAll(<<Rep("## ", 1), Rep("section:", 1), Rep(" ", 1)>>),
      CatAll(<<Rep("## ", 1), Rep("section:", 1), Rep(" ", 2), Lit("Title")>>),
      CatAll(<<Rep("## ", 1), Rep("section:", 1), Lit("Title")>>),
      CatAll(<<Rep("## ", 1), Rep("section:", 1), Rep(" ", 1), Rep("section:", 1),
               Rep(" ", 1), Lit("Title")>>),
      CatAll(<<Rep("## ", 1), Lit("Notes")>>),
      CatAll(<<Rep("# ", 1), Lit("Title")>>),
      Lit("Body"),
      <<>> }

RawDocuments ==
    { implode(Rep("\n", 1), ls) :
        ls \in UNION { [1 .. n -> RawLines] : n \in 1 .. MaxRawLines } }

InitEditor ==
    /\ NoServer
    /\ settings = NoSettings
    /\ wc = FALSE
    /\ db = EmptyDb
    /\ op = "mount"
    /\ arg \in RawDocuments
    /\ ret = <<>>

\* const md = prepareForEditor(value ?? '')
PrepareForEditor ==
    /\ op = "mount"
    /\ op' = "prepareForEditor"
    /\ ret' = prepareForEditor(arg)
    /\ UNCHANGED <<server, settings, wc, db, arg>>

\* onChange(serializeToContextTxt(md)), for the text as it was loaded.
SerializeToContextTxt ==
    /\ op = "prepareForEditor"
    /\ op' = "serializeToContextTxt"
    /\ ret' = serializeToContextTxt(ret)
    /\ UNCHANGED <<server, settings, wc, db, arg>>

NextEditor == PrepareForEditor \/ SerializeToContextTxt

SpecEditor == InitEditor /\ [][NextEditor]_vars

\* ------------------------------------------------------------------------
\*  The updater service (updater.js): its state, the child processes and
\*  timers it has started, and the events of its event loop.
\* ------------------------------------------------------------------------

\* Number of commits git pull can bring in.
MaxCommits == 2

\* Exit codes of a child process.
ExitCodes == {0, 1}

\* if (state.status !== 'idle' && state.status !== 'error') -> 409
accepts_update_unless_child_runs(status) == status \notin {"pulling", "building"}

accepts_update(status) == status \in {"idle", "error"}

\* startNext(): the running server is killed, and when the build exists a
\* timer is set that spawns it.
startNext(u) ==
    [u EXCEPT !.nextProc = FALSE,
              !.spawn_timers = IF u.built THEN @ + 1 ELSE @,
              !.called = @ \cup {"startNext"}]

\* runUpdate(): state.status = 'pulling' and git pull is spawned.
runUpdate(u) ==
    [u EXCEPT !.status = "pulling", !.pull = TRUE, !.codes = <<>>,
              !.called = {"runUpdate"}]

\* pull.on('close'): a pull that succeeded may have moved HEAD by moved.
pull_closed(u, code, moved) ==
    IF code # 0
    THEN [u EXCEPT !.pull = FALSE, !.status = "error", !.codes = Append(@, code),
                   !.called = {}]
    ELSE [u EXCEPT !.pull = FALSE, !.status = "building", !.build = TRUE,
                   !.head = @ + moved, !.codes = Append(@, code), !.called = {}]

\* build.on('close') that restarts whatever the exit code is.
build_closed_restarting_always(u, code) ==
    startNext([u EXCEPT !.build = FALSE, !.status = "restarting",
                        !.idle_timer = TRUE, !.codes = Append(@, code),
                        !.called = {}])

\* build.on('close'): a build that succeeded has written the server bundle.
build_closed(u, code) ==
    IF code # 0
    THEN [u EXCEPT !.build = FALSE, !.status = "error", !.codes = Append(@, code),
                   !.called = {}]
    ELSE startNext([u EXCEPT !.build = FALSE, !.status = "restarting",
                             !.built = TRUE, !.idle_timer = TRUE,
                             !.codes = Append(@, code), !.called = {}])

\* The service once it listens: state.commit = getCommit(), startNext().
\* codes holds the exit codes of the current update and called the functions
\* the last event called.
InitUpdater ==
    /\ transients = <<>>
    /\ requests = <<>>
    /\ admin = <<>>
    /\ settings = NoSettings
    /\ wc = FALSE
    /\ db = EmptyDb
    /\ op = "listen"
    /\ arg = <<>>
    /\ ret = None
    /\ \E bundle \in BOOLEAN :
          updater = startNext([status |-> "idle", commit |-> 0, head |-> 0,
                               nextProc |-> FALSE, spawn_timers |-> 0,
                               idle_timer |-> FALSE, pull |-> FALSE, build |-> FALSE,
                               built |-> bundle, codes |-> <<>>, called |-> {}])

\* POST /update
PostUpdate ==
    /\ op' = "POST /update"
    /\ arg' = <<>>
    /\ IF ~accepts_update(updater.status)
       THEN /\ ret' = Some([code |-> 409])
            /\ updater' = [updater EXCEPT !.called = {}]
       ELSE /\ ret' = Some([code |-> 200])
            /\ updater' = runUpdate(updater)
    /\ UNCHANGED <<settings, wc, db, transients, requests, admin>>

\* GET /status
GetStatus ==
    /\ op' = "GET /status"
    /\ arg' = <<>>
    /\ ret' = Some([code |-> 200, status |-> updater.status, commit |-> updater.commit])
    /\ updater' = [updater EXCEPT !.called = {}]
    /\ UNCHANGED <<settings, wc, db, transients, requests, admin>>

\* git pull exits.
PullClose ==
    /\ updater.pull
    /\ \E code \in ExitCodes, moved \in 0 .. 1 :
          /\ updater.head + moved <= MaxCommits
          /\ code # 0 => moved = 0
          /\ arg' = <<code>>
          /\ updater' = pull_closed(updater, code, moved)
    /\ op' = "pull close"
    /\ ret' = None
    /\ UNCHANGED <<settings, wc, db, transients, requests, admin>>

\* npm run build exits.
BuildClose ==
    /\ updater.build
    /\ \E code \in ExitCodes :
          /\ arg' = <<code>>
          /\ updater' = build_closed(updater, code)
    /\ op' = "build close"
    /\ ret' = None
    /\ UNCHANGED <<settings, wc, db, transients, requests, admin>>

\* The 500 ms timer of startNext: the server is spawned.
SpawnNext ==
    /\ updater.spawn_timers > 0
    /\ updater' = [updater EXCEPT !.spawn_timers = @ - 1, !.nextProc = TRUE,
                                  !.called = {}]
    /\ op' = "spawn"
    /\ arg' = <<>>
    /\ ret' = None
    /\ UNCHANGED <<settings, wc, db, transients, requests, admin>>

\* nextProc.on('exit')
NextExit ==
    /\ updater.nextProc
    /\ updater' = [updater EXCEPT !.nextProc = FALSE, !.called = {}]
    /\ op' = "next exit"
    /\ arg' = <<>>
    /\ ret' = None
    /\ UNCHANGED <<settings, wc, db, transients, requests, admin>>

\* The 4000 ms timer of a finished build; the 500 ms timers set no later
\* than it have fired.
MarkIdle ==
    /\ updater.idle_timer
    /\ updater.spawn_timers = 0
    /\ updater' = [updater EXCEPT !.idle_timer = FALSE, !.status = "idle",
                                  !.commit = updater.head, !.called = {}]
    /\ op' = "idle timer"
    /\ arg' = <<>>
    /\ ret' = None
    /\ UNCHANGED <<settings, wc, db, transients, requests, admin>>

NextUpdater ==
    \/ PostUpdate
    \/ GetStatus
    \/ PullClose
    \/ BuildClose
    \/ SpawnNext
    \/ NextExit
    \/ MarkIdle

SpecUpdater == InitUpdater /\ [][NextUpdater]_vars

\* ------------------------------------------------------------------------
\*  Properties
\* ------------------------------------------------------------------------

\* The run at index i opens a line of t.
LineStart(t, i) == i = 1 \/ t[i - 1].c = "\n"

\* The index of the first newline run of t at or after i; Len(t) + 1 if
\* there is none.
NextBreak(t, i) ==
    LET S == { j \in i .. Len(t) : t[j].c = "\n" }
    IN  IF S = {} THEN Len(t) + 1 ELSE CHOOSE j \in S : \A k \in S : j <= k

\* The indices of the runs of t that open a line with the literal key.
KeyLines(t, key) == { i \in DOMAIN t : LineStart(t, i) /\ t[i] = Run(key, 1) }

\* What follows, up to the end of its line, the key at index i.
ValueAt(t, i) == SubSeq(t, i + 1, NextBreak(t, i + 1) - 1)

\* A request has been answered with a document.
Compiled == op \in {"generate_index", "generate_page"} /\ ret # None

ManualMode == Coalesce(settings.mode, "auto") = "manual"

\* The answered request was for a commerce category, or for a single page,
\* post or product.
ShopRequest ==
    op = "generate_page" /\ ret # None /\ ~ManualMode /\ arg.type = "shop" /\ wc

ItemRequest ==
    op = "generate_page" /\ ret # None /\ ~ManualMode /\ ~(arg.type = "shop" /\ wc)

\* The post, and the category, the answered request resolved to.
RequestedPost == find_post(wc, db, arg.slug, arg.type)[1]

RequestedTerm == get_term_by_slug(db, arg.slug)[1]

\* s begins with p.
StartsWith(s, p) ==
    \/ p = <<>>
    \/ /\ Len(s) >= Len(p)
       /\ SubSeq(s, 1, Len(p) - 1) = SubSeq(p, 1, Len(p) - 1)
       /\ s[Len(p)].c = p[Len(p)].c
       /\ s[Len(p)].n >= p[Len(p)].n

\* The heading of a section block titled title.
SectionHead(title) == CatAll(<<Lit("## section: "), title, Rep("\n", 2)>>)

\* C6: prose without any heading-like line yields exactly one section, titled
\* by the fallback title, whatever its length.
C6_ProseWithoutHeadingsIsOneSection ==
    (/\ op = "split_into_sections"
     /\ \A i \in DOMAIN explode(arg.content) :
            ~is_heading(trim(explode(arg.content)[i])))
        => /\ Len(ret) = 1
           /\ StartsWith(ret[1], SectionHead(arg.page_title))
           /\ mb_strlen(ret[1]) > mb_strlen(SectionHead(arg.page_title))

\* Prose without headings and longer than the section cap came back as one
\* section.
C6_Witness ==
    /\ op = "split_into_sections"
    /\ \A i \in DOMAIN explode(arg.content) :
            ~is_heading(trim(explode(arg.content)[i]))
    /\ mb_strlen(arg.content) > max_section_chars
    /\ Len(ret) = 1

\* C1: every document returned by generate_index or generate_page (single
\* item, commerce category, manual page) is at most 500*1024 bytes long.
C1_DocumentWithinSizeCeiling ==
    Compiled => strlen(ret[1]) <= 500 * 1024

\* C2: every returned document begins with a "# title" line whose title is
\* not empty, immediately followed by a "> description" line.
C2_DocumentBeginsWithHeaderBlock ==
    Compiled =>
        LET doc == ret[1]
            eol == NextBreak(doc, 1)
        IN  /\ doc[1] = Run("# ", 1)
            /\ ValueAt(doc, 1) # <<>>
            /\ eol < Len(doc)
            /\ doc[eol].n = 1
            /\ doc[eol + 1] = Run("> ", 1)

\* The title and the description, before its cap, that the answered request
\* puts in the header.
HeaderTitle ==
    IF ItemRequest THEN RequestedPost.post_title
    ELSE IF ShopRequest THEN RequestedTerm.name
    ELSE Coalesce(settings.site_name, bloginfo_name)

SourceDescription ==
    IF ItemRequest THEN page_description(RequestedPost)
    ELSE IF ShopRequest THEN clean_text(RequestedTerm.description)
    ELSE Coalesce(settings.description, bloginfo_description)

\* A description of at most 160 characters unchanged, a longer one as its
\* first 157 characters and "...".
EmittedDescription(source) ==
    IF mb_strlen(source) <= 160 THEN source
    ELSE Cat(mb_substr(source, 157), Rep(".", 3))

\* C3: the description on the "> " line is at most 160 characters long: the
\* source description when that has at most 160 characters, else its first
\* 157 characters followed by "...".
C3_DescriptionCappedAt160 ==
    (Compiled /\ KeyLines(ret[1], "> ") # {}) =>
        /\ StartsWith(ret[1],
                      CatAll(<<Lit("# "), HeaderTitle, Rep("\n", 1), Lit("> "),
                               EmittedDescription(SourceDescription),
                               Rep("\n", 2), Lit("@lang: ")>>))
        /\ \A i \in KeyLines(ret[1], "> ") : mb_strlen(ValueAt(ret[1], i)) <= 160

\* A description of 200 characters was emitted as 157 characters and "...".
C3_Witness ==
    /\ ItemRequest
    /\ mb_strlen(SourceDescription) = 200
    /\ \E i \in KeyLines(ret[1], "> ") :
          /\ mb_strlen(ValueAt(ret[1], i)) = 160
          /\ ValueAt(ret[1], i) = Cat(mb_substr(SourceDescription, 157), Rep(".", 3))

RequiredKeys == <<"@lang: ", "@version: 1.0", "@updated: ">>

OptionalKeys ==
    {"@canonical: ", "@content_type: ", "@industry: ", "@currency: ", "@topics: "}

\* C4: "@lang", "@version" and "@updated" each open exactly one line of the
\* document, in that order, before every optional metadata line and before
\* the first "## section:" line.
C4_RequiredMetadataFirst ==
    Compiled =>
        LET doc == ret[1]
            at(k) == KeyLines(doc, RequiredKeys[k])
            the(k) == CHOOSE i \in at(k) : TRUE
        IN  /\ \A k \in 1 .. 3 : Cardinality(at(k)) = 1
            /\ the(1) < the(2)
            /\ the(2) < the(3)
            /\ \A key \in OptionalKeys \cup {"## section: "} :
                  \A i \in KeyLines(doc, key) : the(3) < i

\* A single item was compiled with every optional metadata line and a
\* section.
C4_Witness ==
    /\ ItemRequest
    /\ \A key \in OptionalKeys \cup {"## section: "} : KeyLines(ret[1], key) # {}

\* C5: when the item's rendered content is not empty, the single-item
\* document holds at least one "## section:" block.
C5_ContentGivesSection ==
    (ItemRequest /\ get_rendered_content(RequestedPost) # <<>>) =>
        KeyLines(ret[1], "## section: ") # {}

\* The lines of the prose that was split, and its heading-like lines.
ProseLines == explode(arg.content)

Headings == { i \in DOMAIN ProseLines : is_heading(trim(ProseLines[i])) }

\* The body that follows the heading at line h: the lines up to the next
\* heading, joined and trimmed.
BodyAfter(h) ==
    LET later == { j \in Headings : j > h }
        stop == IF later = {} THEN Len(ProseLines) + 1
                ELSE CHOOSE j \in later : \A k \in later : j <= k
    IN  trim(implode(Rep("\n", 1), SubSeq(ProseLines, h + 1, stop - 1)))

\* C7: prose with N heading-like lines, each followed by at least 30
\* characters of body, is split into exactly N sections; the i-th section is
\* titled by the i-th heading and holds the body that follows it.
C7_OneSectionPerHeading ==
    (/\ op = "split_into_sections"
     /\ Headings # {}
     /\ \A h \in Headings : mb_strlen(BodyAfter(h)) >= 30)
        => /\ Len(ret) = Cardinality(Headings)
           /\ \A h \in Headings :
                 ret[Cardinality({ j \in Headings : j <= h })]
                    = section_text(trim(ProseLines[h]), truncate(BodyAfter(h)))

\* The identifier the claim gives a product: its SKU when it has one, else
\* "wc-" and the item id.
ClaimedIdentifier(sku, id) ==
    IF sku # <<>> THEN sku ELSE Cat(Lit("wc-"), Lit(ToString(id)))

\* The posts of the listed category whose product can be loaded.
ListedProducts == SelectSeq(arg.d.posts, LAMBDA p : p.product # None)

\* C9: a "Product Details" block, and every product entry of a category
\* listing, opens with a "PRODUCT_ID: v" line where v is not empty: the SKU
\* when the product has one, else "wc-" and the item id.
C9_IdentifierLeadsEveryBlock ==
    /\ (op = "build_product_sections" /\ arg.product # None) =>
          /\ ret # <<>>
          /\ StartsWith(ret[1], Cat(SectionHead(Lit("Product Details")),
                                    Lit("PRODUCT_ID: ")))
          /\ ValueAt(ret[1], 4) # <<>>
          /\ ValueAt(ret[1], 4)
                = ClaimedIdentifier(arg.product[1].sku, arg.product_id)
    /\ (op = "build_category_context" /\ ret # None) =>
          LET doc == ret[1]
              ids == KeyLines(doc, "PRODUCT_ID: ")
              nth(i) == Cardinality({ j \in ids : j <= i })
          IN  /\ Cardinality(ids) = Len(ListedProducts)
              /\ \A i \in ids :
                    /\ doc[i - 1] = Run("\n", 2)
                    /\ ValueAt(doc, i) # <<>>
                    /\ ValueAt(doc, i)
                          = ClaimedIdentifier(ListedProducts[nth(i)].product[1].sku,
                                              ListedProducts[nth(i)].ID)
              /\ \A n \in KeyLines(doc, "NAME: ") :
                    \E i \in ids : NextBreak(doc, i) + 1 = n

DetailKeys ==
    <<"PRODUCT_ID: ", "PRICE: ", "CURRENCY: ", "STOCK_STATUS: ", "PURCHASE_URL: ",
      "ACTION: ">>

\* C10: the "Product Details" block holds the keys PRODUCT_ID, PRICE,
\* CURRENCY, STOCK_STATUS, PURCHASE_URL and ACTION once each and in that
\* order; PRICE and CURRENCY are the product's price and the store currency,
\* STOCK_STATUS is in_stock or out_of_stock as the product is in stock or
\* not, and ACTION is product_purchase.
C10_DetailKeysOnceInOrder ==
    (op = "build_product_sections" /\ arg.product # None) =>
        LET block == ret[1]
            product == arg.product[1]
            at(k) == KeyLines(block, DetailKeys[k])
            the(k) == CHOOSE i \in at(k) : TRUE
        IN  /\ StartsWith(block, SectionHead(Lit("Product Details")))
            /\ \A k \in 1 .. 6 : Cardinality(at(k)) = 1
            /\ \A k \in 1 .. 5 : the(k) < the(k + 1)
            /\ ValueAt(block, the(2)) = product.price
            /\ ValueAt(block, the(3)) = arg.currency
            /\ ValueAt(block, the(4)) = IF product.in_stock THEN Lit("in_stock")
                                        ELSE Lit("out_of_stock")
            /\ ValueAt(block, the(6)) = Lit("product_purchase")

\* The block of a product with price 29.99, currency USD, in stock and no SKU
\* reads "PRODUCT_ID: wc-42", "PRICE: 29.99", "CURRENCY: USD" and
\* "STOCK_STATUS: in_stock".
C10_Witness ==
    /\ op = "build_product_sections"
    /\ arg.product # None
    /\ arg.product[1].sku = <<>>
    /\ arg.product[1].price = Lit("29.99")
    /\ arg.currency = Lit("USD")
    /\ arg.product[1].in_stock
    /\ \E i \in KeyLines(ret[1], "PRODUCT_ID: ") :
          ValueAt(ret[1], i) = Cat(Lit("wc-"), Lit("42"))
    /\ \E i \in KeyLines(ret[1], "PRICE: ") : ValueAt(ret[1], i) = Lit("29.99")
    /\ \E i \in KeyLines(ret[1], "CURRENCY: ") : ValueAt(ret[1], i) = Lit("USD")
    /\ \E i \in KeyLines(ret[1], "STOCK_STATUS: ") : ValueAt(ret[1], i) = Lit("in_stock")

\* The labels under which the Site Map groups its entries.
GroupLabels == {"Posts", "Pages", "Products", "Shop Categories"}

\* The runs of the document that open a group of the Site Map: a label at the
\* start of a line, followed by a colon that ends the line.
GroupHeads(doc) ==
    { i \in 1 .. Len(doc) - 1 :
        /\ LineStart(doc, i)
        /\ doc[i].c \in GroupLabels
        /\ doc[i + 1] = Run(":", 1)
        /\ (i + 2 <= Len(doc) => doc[i + 2].c = "\n") }

\* The document lists the URL of the relative path made of these tokens.
ListsPath(doc, path) ==
    \E i \in 1 .. Len(doc) :
        /\ doc[i] = Run("/context/", 1)
        /\ i + Len(path) + 1 <= Len(doc)
        /\ SubSeq(doc, i + 1, i + Len(path)) = path
        /\ doc[i + Len(path) + 1] = Run(".txt", 1)

\* The site is exactly three published pages, two of them top-level and the
\* third a child of the first, and no commerce category.
ThreePages ==
    /\ Len(db.posts) = 3
    /\ ~wc
    /\ \A i \in 1 .. 3 :
          /\ db.posts[i].post_type = "page"
          /\ db.posts[i].post_status = "publish"
          /\ ~is_excluded(db.posts[i])
    /\ db.posts[1].post_parent = 0
    /\ db.posts[2].post_parent = 0
    /\ db.posts[3].post_parent = db.posts[1].ID

ChildPathListed ==
    ListsPath(ret[1], <<Run(db.posts[1].post_name, 1), Run("/", 1),
                        Run(db.posts[3].post_name, 1)>>)

\* C11 as stated: the index over two top-level pages and a child of the first
\* has a Site Map of 2 type groups and lists the child under
\* {parent-slug}/{child-slug}.
C11_ThreePagesGiveTwoGroups ==
    (op = "generate_index" /\ ThreePages) =>
        /\ Cardinality(GroupHeads(ret[1])) = 2
        /\ ChildPathListed

\* C11 amended: the three entries are of one type, so the Site Map has the
\* single group "Pages", and the child is listed under
\* {parent-slug}/{child-slug}.
C11_ThreePagesGiveOneGroup ==
    (op = "generate_index" /\ ThreePages) =>
        /\ Cardinality(GroupHeads(ret[1])) = 1
        /\ \A i \in GroupHeads(ret[1]) : ret[1][i] = Run("Pages", 1)
        /\ ChildPathListed

C11_Witness ==
    /\ op = "generate_index"
    /\ ThreePages
    /\ db.posts[3].post_name # db.posts[1].post_name


\* The posts that are the parent of the post.
ParentsOf(post) ==
    { p \in { db.posts[j] : j \in DOMAIN db.posts } : p.ID = post.post_parent }

\* The relative path written from a slug, from a prefix and a slug.
SlugPath(slug) == <<Run(slug, 1)>>

PrefixedPath(prefix, slug) == <<Run(prefix, 1), Run(slug, 1)>>

NestedPath(parent_slug, slug) == <<Run(parent_slug, 1), Run("/", 1), Run(slug, 1)>>

\* The commerce categories the index lists.
ListedCategories ==
    { db.cats[i] : i \in { j \in DOMAIN db.cats :
                             db.cats[j].count > 0
                             /\ db.cats[j].term_id # db.default_product_cat } }

\* C12: the relative path of an item is its slug for a top-level page,
\* {parent-slug}/{slug} for a page with a parent, blog/{slug} for a post,
\* products/{slug} for a product, {type}/{slug} for another type, and the
\* index lists a commerce category under shop/{slug}.
C12_CanonicalPath ==
    /\ op = "get_context_path" =>
          ret[1] = CASE arg.post_type = "page" /\ arg.post_parent = 0 ->
                          SlugPath(arg.post_name)
                     [] arg.post_type = "page" /\ arg.post_parent # 0 ->
                          NestedPath((CHOOSE p \in ParentsOf(arg) : TRUE).post_name,
                                     arg.post_name)
                     [] arg.post_type = "post" -> PrefixedPath("blog/", arg.post_name)
                     [] arg.post_type = "product" ->
                          PrefixedPath("products/", arg.post_name)
                     [] OTHER -> NestedPath(arg.post_type, arg.post_name)
    /\ (op = "generate_index" /\ wc) =>
          \A cat \in ListedCategories :
              ListsPath(ret[1], PrefixedPath("shop/", cat.slug))

\* The path of a page under a parent with another slug has been computed.
C12_Witness ==
    /\ op = "get_context_path"
    /\ arg.post_type = "page"
    /\ \E p \in ParentsOf(arg) : p.post_name # arg.post_name
    /\ ret = Some(NestedPath("about", "news"))


\* The entries of the Site Map of the compiled index.
IndexEntries ==
    LET entries == discover_all_entries(wc, db)
    IN  { entries[i] : i \in DOMAIN entries }

OneLine(t) == \A i \in DOMAIN t : t[i].c # "\n"

\* C13: the description of every entry of the Site Map is a single line of
\* at most 120 characters.
C13_EntryDescriptionOneLineOf120 ==
    op = "generate_index" =>
        \A e \in IndexEntries :
            /\ mb_strlen(e.description) <= 120
            /\ OneLine(e.description)


\* The public post types, and the post type a requested type stands for: the
\* mapped names, the slug of a top-level page (its children are pages), the
\* name of a public post type; any other requested type stands for all types.
PublicTypes == { public_post_types(wc)[i] : i \in DOMAIN public_post_types(wc) }

TopLevelPageSlugs ==
    { db.posts[i].post_name : i \in { j \in DOMAIN db.posts :
                                         /\ db.posts[j].post_type = "page"
                                         /\ db.posts[j].post_parent = 0 } }

TypesFor(type) ==
    IF type = "blog" THEN {"post"}
    ELSE IF type = "products" THEN {"product"}
    ELSE IF type \in TopLevelPageSlugs THEN {"page"}
    ELSE IF type \in PublicTypes THEN {type}
    ELSE PublicTypes

\* A published item, or for type 'shop' a commerce category, matches the
\* request.
RequestMatches ==
    IF arg.type = "shop" /\ wc
    THEN \E i \in DOMAIN db.cats : db.cats[i].slug = arg.slug
    ELSE \E i \in DOMAIN db.posts :
            /\ db.posts[i].post_name = arg.slug
            /\ db.posts[i].post_status = "publish"
            /\ db.posts[i].post_type \in TypesFor(arg.type)

\* A manual section with a body has the requested slug.
SectionMatches ==
    \E i \in DOMAIN db.sections :
        db.sections[i].slug = arg.slug /\ Truthy(db.sections[i].body)

HtmlTokens == {"<p>", "</p>", "<br>", "<li>", "<b>", "<style>x</style>", "<script>x</script>"}

NoHtml(t) == \A i \in DOMAIN t : t[i].c \notin HtmlTokens

\* C15: the output of the text normalizer holds no HTML tag and no style or
\* script block, for raw markup, for entity-encoded text and for text that
\* was normalized once already.
C15_NormalizedTextHasNoHtml ==
    op \in {"clean_text", "clean_text_again"} => NoHtml(ret)


\* The parts of the document of the answered item request before the size
\* cap: the header, the metadata, then the sections.
AssembledParts == array_filter(page_context_parts(settings, wc, db, RequestedPost))

Assembled(parts) == implode(Rep("\n", 2), parts)

\* C16: when the assembled document of an item is over the size ceiling while
\* its header, metadata and first section fit under it, the output is the
\* header, the metadata and a prefix of the whole sections.
C16_CutAtSectionBoundary ==
    (/\ ItemRequest
     /\ Len(AssembledParts) >= 3
     /\ strlen(Assembled(AssembledParts)) > max_total_bytes
     /\ strlen(Assembled(SubSeq(AssembledParts, 1, 3))) <= max_total_bytes)
        => \E k \in 3 .. Len(AssembledParts) :
              ret[1] = Assembled(SubSeq(AssembledParts, 1, k))


\* ------------------------------------------------------------------------
\*  C17
\* ------------------------------------------------------------------------

\* The handlers that hold a document their generator returned.
Compiled17 == { h \in Handlers : requests[h].g # None /\ requests[h].content # None }

\* The database a call of handler h read: the stored posts with the manual
\* sections as they were when the call ran.
SnapshotOf(h) == [db EXCEPT !.sections = requests[h].read]

\* The document of every call is the one its settings and snapshot determine,
\* whatever ran in between.
ResultDetermined ==
    \A h \in Compiled17 :
        requests[h].content = generate(requests[h].g[1], wc, SnapshotOf(h), requests[h].req)

\* Two calls for the same request with the same settings on the same snapshot
\* hold the same document.
SameInputsSameDocument ==
    \A h, k \in Compiled17 :
        (/\ requests[h].req = requests[k].req
         /\ requests[h].g = requests[k].g
         /\ requests[h].read = requests[k].read)
            => requests[h].content = requests[k].content

\* A step in which the generator of handler h runs.
CompileStep(h) == requests[h].pc = "generate" /\ requests'[h].pc # "generate"

Route(path) ==
    IF Len(path) = 1 THEN [slug |-> path[1].c, type |-> ""]
    ELSE IF Len(path) = 2
    THEN [slug |-> path[2].c,
          type |-> CASE path[1].c = "blog/" -> "blog"
                     [] path[1].c = "products/" -> "products"
                     [] path[1].c = "shop/" -> "shop"]
    ELSE [slug |-> path[3].c, type |-> path[1].c]

\* The posts the index lists.
IndexedPosts ==
    { post \in { db.posts[i] : i \in DOMAIN db.posts } :
        /\ post.post_status = "publish"
        /\ post.post_type \in PublicTypes
        /\ ~is_excluded(post) }

Served(path) == generate_page(settings, wc, db, Route(path).slug, Route(path).type)

\* C18: every path the Site Map lists leads back, through generate_page, to
\* the document compiled for the item that produced the entry.
C18_ListedPathsAreServed ==
    op = "generate_index" =>
        /\ \A post \in IndexedPosts :
              ListsPath(ret[1], get_context_path(db, post))
                  => Served(get_context_path(db, post))
                        = Some(build_page_context(settings, wc, db, post))
        /\ wc => \A cat \in ListedCategories :
              ListsPath(ret[1], PrefixedPath("shop/", cat.slug))
                  => /\ Served(PrefixedPath("shop/", cat.slug)) # None
                     /\ Served(PrefixedPath("shop/", cat.slug))
                            = build_category_context(settings, db, cat.slug)
\* ------------------------------------------------------------------------
\*  C19
\* ------------------------------------------------------------------------

\* The requests that arrived after the latest save had completed, and have
\* been answered.
AnsweredAfterSave ==
    { h \in Handlers : /\ requests[h].pc = "done"
                       /\ admin.saves > 0
                       /\ requests[h].born = [saves |-> admin.saves, quiet |-> TRUE] }

\* The response compiled from the settings and sections now stored.
FreshResponse(req) ==
    IF generate(settings, wc, db, req) = None THEN not_found
    ELSE output(generate(settings, wc, db, req)[1])

\* C19: once a save of the settings or of the manual sections has completed,
\* every response to a request that starts afterwards is compiled from the
\* new settings, however the save was interleaved with other requests.
C19_SaveRefreshesImmediately ==
    \A h \in AnsweredAfterSave : requests[h].response = Some(FreshResponse(requests[h].req))
\* ------------------------------------------------------------------------
\*  C20
\* ------------------------------------------------------------------------

\* The heading predicate as stated: the length bound, no closing punctuation
\* and no bullet marker hold together with either letter pattern.
StatedHeading(line) ==
    /\ mb_strlen(line) > 3
    /\ mb_strlen(line) < 80
    /\ ~ends_with_punctuation(line)
    /\ ~str_starts_with(line, "-")
    /\ ~str_starts_with(line, "BULLET")
    /\ (mb_strtoupper(line) = line \/ title_case_match(line))

\* C20: every section the segmenter starts below the first is titled by a
\* line that satisfies the stated heading predicate; no line of three
\* characters or fewer, or of eighty or more, starts a section.
C20_SectionsStartAtStatedHeadings ==
    op = "split_into_sections" =>
        \A i \in DOMAIN ret :
            \/ StartsWith(ret[i], SectionHead(arg.page_title))
            \/ \E line \in LineKinds :
                  StatedHeading(line) /\ StartsWith(ret[i], SectionHead(line))
\* ------------------------------------------------------------------------
\*  C21
\* ------------------------------------------------------------------------

\* The title under which a returned section stands, and the length of the
\* body below it.
TitleOfSection(s) ==
    CHOOSE t \in LineKinds \cup PageTitles : StartsWith(s, SectionHead(t))

BodyLength(s) == mb_strlen(s) - mb_strlen(SectionHead(TitleOfSection(s)))

\* The lines of the content after the first that are heading-like.
LaterHeadings ==
    { trim(explode(arg.content)[k]) :
        k \in { j \in 2 .. Len(explode(arg.content)) :
                  is_heading(trim(explode(arg.content)[j])) } }

\* C21: a heading-like line becomes a title only when a body has been
\* accumulated before it (the first line never does); every returned section
\* has a non-empty body; and a section whose body has 30 characters or fewer
\* is the single fallback section: the whole content, truncated, under the
\* page title.
C21_SectionsHaveBodies ==
    op = "split_into_sections" =>
        /\ \A i \in DOMAIN ret :
              /\ BodyLength(ret[i]) > 0
              /\ TitleOfSection(ret[i]) = arg.page_title
                    \/ TitleOfSection(ret[i]) \in LaterHeadings
        /\ (\E i \in DOMAIN ret : BodyLength(ret[i]) <= 30)
              => ret = <<Cat(SectionHead(arg.page_title), truncate(arg.content))>>

\* A heading opens the content and a second heading follows a body of 30
\* characters or fewer: the short section is dropped and the section of the
\* second heading is returned.
C21_Witness ==
    /\ op = "split_into_sections"
    /\ explode(arg.content)[1] = CapsLine
    /\ Len(explode(arg.content)) = 4
    /\ explode(arg.content)[2] = Sentence(12)
    /\ explode(arg.content)[3] = TitleLine
    /\ explode(arg.content)[4] = Sentence(31)
    /\ ret = <<Cat(SectionHead(TitleLine), Sentence(31))>>
\* ------------------------------------------------------------------------
\*  C22
\* ------------------------------------------------------------------------

\* The runs of a document that open a section, and the place of a section in
\* the assembly: 1 for a content section, 2 to 5 for the structured blocks,
\* 6 for the child links.
SectionStarts(doc) == KeyLines(doc, "## section: ")

PlaceOf(doc, i) ==
    CASE ValueAt(doc, i) = Lit("Product Details") -> 2
      [] ValueAt(doc, i) = Lit("Specifications") -> 3
      [] ValueAt(doc, i) = Lit("Available Variations") -> 4
      [] ValueAt(doc, i) = Lit("Related Products") -> 5
      [] ValueAt(doc, i) = Lit("Sub-pages") -> 6
      [] OTHER -> 1

SiteMapStart(doc) ==
    CHOOSE i \in KeyLines(doc, "## section: ") : ValueAt(doc, i) = Lit("Site Map")

\* The runs that open a group: the label of one of the entries at the start
\* of a line of the Site Map, followed by a colon that ends the line.
GroupStarts(doc, entries) ==
    { i \in SiteMapStart(doc) + 3 .. Len(doc) - 1 :
        /\ LineStart(doc, i)
        /\ \E e \in DOMAIN entries : <<doc[i]>> = entries[e].type_label
        /\ doc[i + 1] = Run(":", 1)
        /\ (i + 2 <= Len(doc) => doc[i + 2].c = "\n") }

\* The runs that open the path of a listed URL, and the path written there.
UrlStarts(doc) ==
    { u \in SiteMapStart(doc) .. Len(doc) : doc[u] = Run("/context/", 1) }

PathAt(doc, u) == SubSeq(doc, u + 1, NextBreak(doc, u) - 2)

\* The URLs listed under the group that opens at g, and the k-th of a set of
\* indices.
UrlsUnder(urls, groups, g) ==
    { u \in urls : g < u /\ \A h \in groups : h <= g \/ u < h }

Nth(S, k) == CHOOSE u \in S : Cardinality({ v \in S : v < u }) = k - 1

\* The entries that carry a label, as indices in discovery order.
EntriesLabelled(entries, label) ==
    { e \in DOMAIN entries : entries[e].type_label = label }

\* The entries of the label of group g are listed under it once each, in
\* discovery order.
GroupListsItsEntries(doc, entries, under, labelled) ==
    /\ Cardinality(under) = Cardinality(labelled)
    /\ \A k \in 1 .. Cardinality(under) :
          PathAt(doc, Nth(under, k)) = entries[Nth(labelled, k)].path

Grouped(doc, entries, groups, urls) ==
    /\ \A e \in DOMAIN entries :
          Cardinality({ g \in groups : <<doc[g]>> = entries[e].type_label }) = 1
    /\ \A g, h \in groups :
          g < h => Nth(EntriesLabelled(entries, <<doc[g]>>), 1)
                     < Nth(EntriesLabelled(entries, <<doc[h]>>), 1)
    /\ \A g \in groups :
          GroupListsItsEntries(doc, entries, UrlsUnder(urls, groups, g),
                               EntriesLabelled(entries, <<doc[g]>>))
    /\ Cardinality(urls) = Len(entries)

\* C23: in the Site Map every label of a discovered entry opens exactly one
\* group, the groups stand in the order in which their labels were first
\* seen, and under each group the entries of that label are listed once each
\* in discovery order.
C23_GroupedInFirstSeenOrder ==
    op = "generate_index" =>
        Then(discover_all_entries(wc, db),
             LAMBDA entries :
                entries # <<>> =>
                    Then(GroupStarts(ret[1], entries),
                         LAMBDA groups : Grouped(ret[1], entries, groups,
                                                 UrlStarts(ret[1]))))

\* The index of a site with a post and two pages with different paths: the
\* group of the pages holds two entries.
C23_Witness ==
    /\ op = "generate_index"
    /\ Len(db.posts) = 3
    /\ db.posts[1].post_type = "page" /\ db.posts[1].post_status = "publish"
    /\ db.posts[2].post_type = "post"
    /\ db.posts[3].post_type = "page" /\ db.posts[3].post_status = "publish"
    /\ db.posts[3].post_name # db.posts[1].post_name
    /\ db.posts[3].post_parent = 0
    /\ wc
\* ------------------------------------------------------------------------
\*  C24
\* ------------------------------------------------------------------------

\* Place p comes no later than place q in a depth-first traversal: p is an
\* ancestor of q or q itself, or p branches off to the left of q.
NoLaterInTraversal(p, q) ==
    \/ Len(p) <= Len(q) /\ SubSeq(q, 1, Len(p)) = p
    \/ \E k \in 1 .. Len(p) :
          /\ k <= Len(q)
          /\ SubSeq(p, 1, k - 1) = SubSeq(q, 1, k - 1)
          /\ p[k] < q[k]

\* C24: the walk of a finite field tree runs to its end, whatever the shape
\* of its nodes (no node makes it raise); its calls nest no deeper than the
\* tree; and the fragments stand in the order of the depth-first traversal.
C24_WalkRunsToTheEndInOrder ==
    op \in {"walk_elementor", "walk_acf"} =>
        /\ ~ret.raised
        /\ ret.depth <= MaxDepth + 1
        /\ \A i, j \in DOMAIN ret.found :
              i < j => NoLaterInTraversal(ret.found[i], ret.found[j])
\* ------------------------------------------------------------------------
\*  C25
\* ------------------------------------------------------------------------

AllDetailKeys ==
    {"PRODUCT_ID: ", "PRICE: ", "CURRENCY: ", "REGULAR_PRICE: ", "SALE_PRICE: ",
     "STOCK_STATUS: ", "STOCK_QUANTITY: ", "CATEGORY: ", "TAGS: ", "WEIGHT: ",
     "DIMENSIONS: ", "PURCHASE_URL: ", "ACTION: ", "IMAGE_URL: "}

\* The block has a line that opens with the key.
HasKey(block, key) == KeyLines(block, key) # {}

\* The line below the line of the run at index i opens with the key.
NextLineIs(block, i, key) ==
    /\ NextBreak(block, i) < Len(block)
    /\ block[NextBreak(block, i)].n = 1
    /\ block[NextBreak(block, i) + 1] = Run(key, 1)

ConditionalKeys(block, product) ==
    /\ HasKey(block, "REGULAR_PRICE: ") <=> product.on_sale
    /\ HasKey(block, "SALE_PRICE: ") <=> product.on_sale
    /\ product.on_sale =>
          \A c \in KeyLines(block, "CURRENCY: ") :
              /\ NextLineIs(block, c, "REGULAR_PRICE: ")
              /\ NextLineIs(block, NextBreak(block, c) + 1, "SALE_PRICE: ")
    /\ HasKey(block, "STOCK_QUANTITY: ") <=> product.stock_quantity # None
    /\ HasKey(block, "CATEGORY: ") <=> product.cats # <<>>
    /\ HasKey(block, "TAGS: ") <=> product.tags # <<>>
    /\ HasKey(block, "WEIGHT: ") <=> Truthy(product.weight)
    /\ HasKey(block, "DIMENSIONS: ")
          <=> (Truthy(product.dimensions) /\ product.dimensions # Lit("N/A"))
    /\ HasKey(block, "IMAGE_URL: ")
          <=> (product.image_id # 0 /\ Truthy(product.image_url))
    /\ \A key \in AllDetailKeys : Cardinality(KeyLines(block, key)) <= 1

\* C25: in the Product Details block REGULAR_PRICE and SALE_PRICE stand, both
\* and directly below CURRENCY, exactly when the product is on sale;
\* STOCK_QUANTITY exactly when a quantity is tracked, 0 included; CATEGORY,
\* TAGS, WEIGHT, DIMENSIONS and IMAGE_URL exactly when the product has the
\* value; and no key stands twice.
C25_ConditionalKeys ==
    (op = "build_product_sections" /\ arg.product # None) =>
        ConditionalKeys(ret[1], arg.product[1])

\* The block of a product on sale whose tracked quantity is 0 and that has
\* neither weight nor image.
C25_Witness ==
    /\ op = "build_product_sections"
    /\ arg.product # None
    /\ arg.product[1].on_sale
    /\ arg.product[1].stock_quantity = Some(0)
    /\ arg.product[1].weight = <<>>
    /\ arg.product[1].image_id = 0
    /\ HasKey(ret[1], "STOCK_QUANTITY: ")
\* ------------------------------------------------------------------------
\*  C26
\* ------------------------------------------------------------------------

\* C26: a context.txt text that is loaded into the editor and serialized
\* back without an edit is the text that was loaded.
C26_EditorRoundTrip == op = "serializeToContextTxt" => ret = arg
\* ------------------------------------------------------------------------
\*  C27
\* ------------------------------------------------------------------------

\* The handlers that were answered from the cache.
AnsweredFromCache ==
    { h \in Handlers : /\ requests[h].pc = "done"
                       /\ requests[h].g = None
                       /\ requests[h].response # None
                       /\ requests[h].response[1].status = 200 }

\* C27: a request answered from the cache receives a document compiled for
\* its own (type, slug) pair, before or after the draft was published, and the requests that are being served hold
\* distinct cache keys when they are distinct.
C27_CacheEntriesAreNotShared ==
    /\ \A h \in AnsweredFromCache :
          \E status \in {"draft", "publish"} :
              Some(requests[h].response[1].body)
                  = generate(settings, wc, NestedDb(status), requests[h].req)
    /\ \A h, k \in Handlers :
          (/\ requests[h].pc # "waiting" /\ requests[k].pc # "waiting"
           /\ requests[h].req # requests[k].req)
             => cache_key(requests[h].req) # cache_key(requests[k].req)
\* ------------------------------------------------------------------------
\*  C28
\* ------------------------------------------------------------------------

\* The documents the generator can return on this site.
NestedDocuments ==
    UNION { { generate(settings, wc, NestedDb(status), req)[1] :
                req \in { r \in NestedRequests :
                            generate(settings, wc, NestedDb(status), r) # None } } :
            status \in {"draft", "publish"} }

\* The handlers whose generator returned null.
AnsweredAbsent ==
    { h \in Handlers : requests[h].g # None /\ requests[h].content = None
                       /\ requests[h].pc = "done" }

\* The handlers that were given an empty slug and are past its check.
AnsweredEmptySlug ==
    { h \in Handlers : /\ requests[h].pc \notin {"waiting", "lookup"}
                       /\ requests[h].req.action = "page"
                       /\ requests[h].req.slug = "" }

\* The request of handler h names a page that is published.
Available(h) ==
    /\ requests[h].pc \notin {"waiting", "done"}
    /\ requests[h].req.action = "page"
    /\ generate(settings, wc, db, requests[h].req) # None

\* C28: an absent document is never cached.  A null of generate_page is
\* answered with the 404 text and the step that returns it writes no cache
\* entry; an empty slug is answered 404 without a generator being made; every
\* cache entry holds a document the generator returned; and every step of a
\* request for a page that is available leaves it without a 404, so a request
\* made after a draft is published is compiled and served.
C28_AbsentIsNeverCached ==
    /\ [](/\ \A h \in AnsweredAbsent : requests[h].response = Some(not_found)
          /\ \A h \in AnsweredEmptySlug :
                /\ requests[h].pc = "done"
                /\ requests[h].g = None
                /\ requests[h].response = Some(not_found)
          /\ \A key \in DOMAIN transients : transients[key] \in NestedDocuments)
    /\ [][\A h \in Handlers :
            /\ (CompileStep(h) /\ requests'[h].content = None)
                   => /\ transients' = transients
                      /\ requests'[h].pc = "done"
            /\ (Available(h) /\ requests'[h] # requests[h])
                   => /\ requests'[h].response # Some(not_found)
                      /\ requests[h].pc = "construct" => requests'[h].pc = "generate"
                      /\ requests[h].pc = "generate" => requests'[h].content # None]_vars

\* A request for the page was answered 404 while it was a draft, the cache
\* holds no entry for it, and a request made after the publication was
\* compiled and answered with the document.
C28_Witness ==
    /\ db = NestedDb("publish")
    /\ requests["h1"].req = [action |-> "page", slug |-> "docs", type |-> ""]
    /\ requests["h1"].response = Some(not_found)
    /\ requests["h1"].g # None
    /\ requests["h2"].req = requests["h1"].req
    /\ requests["h2"].pc = "done"
    /\ requests["h2"].g # None
    /\ requests["h2"].response = Some(output(generate(settings, wc, db, requests["h2"].req)[1]))
\* ------------------------------------------------------------------------
\*  C29
\* ------------------------------------------------------------------------

\* The steps of an update that are under way: a running git pull, a running
\* build, and a restart whose 4000 ms timer is pending.
PipelinesInProgress ==
    (IF updater.pull THEN 1 ELSE 0) + (IF updater.build THEN 1 ELSE 0)
        + (IF updater.idle_timer THEN 1 ELSE 0)

\* What a 409 leaves alone: status, commit, and the processes and timers.
UpdaterProcesses ==
    <<updater.status, updater.commit, updater.head, updater.pull, updater.build,
      updater.nextProc, updater.spawn_timers, updater.idle_timer, updater.built>>

\* C29: POST /update starts an update only when status is 'idle' or 'error',
\* and is then answered 200 with git pull running; in any other status it is
\* answered 409 and status, commit and the running processes stay as they
\* were.  At every moment at most one of git pull, build and restart is in
\* progress, and it is the one status names.
C29_OneUpdateAtATime ==
    /\ [](/\ PipelinesInProgress <= 1
          /\ updater.pull <=> updater.status = "pulling"
          /\ updater.build <=> updater.status = "building"
          /\ updater.idle_timer <=> updater.status = "restarting")
    /\ [][/\ op' = "POST /update" /\ updater.status \notin {"idle", "error"}
              => /\ ret' = Some([code |-> 409])
                 /\ UpdaterProcesses' = UpdaterProcesses
          /\ op' = "POST /update" /\ updater.status \in {"idle", "error"}
              => /\ ret' = Some([code |-> 200])
                 /\ updater'.status = "pulling" /\ updater'.pull
          /\ (updater'.pull /\ ~updater.pull)
              => /\ op' = "POST /update"
                 /\ updater.status \in {"idle", "error"}]_vars

\* An update has pulled a new commit, and a POST made while it was building
\* has been answered 409.
C29_Witness ==
    /\ ret = Some([code |-> 409])
    /\ updater.status = "building"
    /\ updater.build
    /\ updater.head > updater.commit

\* ------------------------------------------------------------------------
\*  C30
\* ------------------------------------------------------------------------

\* The exit code the closing process reported in the last event.
ExitCode == arg[1]

\* The changes of status, each with the event that makes it.
StatusStep(from, to) ==
    \/ /\ from \in {"idle", "error"} /\ to = "pulling"
       /\ op' = "POST /update"
    \/ /\ from = "pulling" /\ to = "building"
       /\ op' = "pull close" /\ ExitCode' = 0
    \/ /\ from = "pulling" /\ to = "error"
       /\ op' = "pull close" /\ ExitCode' # 0
    \/ /\ from = "building" /\ to = "restarting"
       /\ op' = "build close" /\ ExitCode' = 0
    \/ /\ from = "building" /\ to = "error"
       /\ op' = "build close" /\ ExitCode' # 0
    \/ /\ from = "restarting" /\ to = "idle"
       /\ op' = "idle timer"

\* C30: status changes only along idle|error -> pulling -> building ->
\* restarting -> idle, with pulling -> error and building -> error exactly
\* when the process exits non-zero; after the service has started, startNext
\* is called only by the event that follows a successful pull and a
\* successful build; and state.commit changes only on restarting -> idle.
C30_StatusCycle ==
    /\ [](("startNext" \in updater.called /\ op # "listen")
            => /\ updater.codes = <<0, 0>>
               /\ updater.status = "restarting")
    /\ [][/\ updater'.status # updater.status
              => StatusStep(updater.status, updater'.status)
          /\ op' \in {"pull close", "build close"}
              => (ExitCode' # 0 <=> updater'.status = "error")
          /\ updater'.commit # updater.commit
              => updater.status = "restarting" /\ updater'.status = "idle"]_vars

\* An update has pulled a new commit, built and restarted the server, and
\* its timer has just marked the service idle at the new commit.
C30_Witness ==
    /\ updater.status = "idle"
    /\ updater.commit > 0
    /\ updater.codes = <<0, 0>>
    /\ updater.nextProc
    /\ op = "idle timer"
====
